---- MODULE Spec2Model ----
(***************************************************************************)
(* A model of the fixture-CSV validation engine of scripts/data_validator  *)
(* (class DataValidator): the rule checkers, the quality scorer and the    *)
(* orchestrator validate_dataframe, run over small pandas-like datasets.   *)
(***************************************************************************)
EXTENDS Integers, Sequences, FiniteSets, TLC

(***************************************************************************)
(* Bounds of the model.                                                    *)
(***************************************************************************)
\* Largest number of rows a dataset is given.
MaxRows == 2
\* Largest number of changes the caller makes to a dataset of clean rows.
MaxDefects == 1
\* Largest number of validate_dataframe calls made on one validator.
MaxRuns == 2
\* Largest number of findings handed to the scorer when it is run on its own.
MaxFindings == 6

(***************************************************************************)
(* Cells.  A cell of a DataFrame is a Python value: a str, an int, a       *)
(* float (only integral ones occur here), a datetime.date, or the missing  *)
(* marker NaN.  The three fields are always present so that any two cells  *)
(* can be compared.                                                        *)
(***************************************************************************)
StrV(x) == [t |-> "str", s |-> x, n |-> 0]
IntV(k) == [t |-> "int", s |-> "", n |-> k]
FloatV(k) == [t |-> "float", s |-> "", n |-> k]
\* datetime.date(y, m, d), kept as the number y*10000 + m*100 + d
DateObj(k) == [t |-> "date", s |-> "", n |-> k]
NaN == [t |-> "null", s |-> "", n |-> 0]

\* pd.isna(value) for a scalar
isna(c) == c.t = "null"

IsNumber(c) == c.t \in {"int", "float"}

\* Python ==, as pandas applies it cell by cell (a missing value equals nothing)
CellEq(a, b) ==
    /\ ~isna(a)
    /\ ~isna(b)
    /\ \/ (IsNumber(a) /\ IsNumber(b) /\ a.n = b.n)
       \/ (a.t = b.t /\ ~IsNumber(a) /\ a.s = b.s /\ a.n = b.n)

\* equality as DataFrame.duplicated groups cells (missing values group together)
SameKey(a, b) == (isna(a) /\ isna(b)) \/ CellEq(a, b)

(***************************************************************************)
(* Strings.  TLC cannot look inside a string, so the characters of every   *)
(* string of the model's universe are tabulated here; the regular          *)
(* expressions and str.strip work on the characters.                       *)
(***************************************************************************)
Chars(s) ==
    CASE s = "ENG-Premier League" -> <<"E", "N", "G", "-", "P", "r", "e", "m", "i", "e", "r", " ", "L", "e", "a", "g", "u", "e">>
    [] s = "ESP-La Liga" -> <<"E", "S", "P", "-", "L", "a", " ", "L", "i", "g", "a">>
    [] s = "Invalid-League" -> <<"I", "n", "v", "a", "l", "i", "d", "-", "L", "e", "a", "g", "u", "e">>
    [] s = "2526" -> <<"2", "5", "2", "6">>
    [] s = "2025-08-15" -> <<"2", "0", "2", "5", "-", "0", "8", "-", "1", "5">>
    [] s = "2025-08-16" -> <<"2", "0", "2", "5", "-", "0", "8", "-", "1", "6">>
    [] s = "invalid-date" -> <<"i", "n", "v", "a", "l", "i", "d", "-", "d", "a", "t", "e">>
    [] s = "2025-02-30" -> <<"2", "0", "2", "5", "-", "0", "2", "-", "3", "0">>
    [] s = "2099-01-01" -> <<"2", "0", "9", "9", "-", "0", "1", "-", "0", "1">>
    [] s = "Liverpool" -> <<"L", "i", "v", "e", "r", "p", "o", "o", "l">>
    [] s = "Arsenal" -> <<"A", "r", "s", "e", "n", "a", "l">>
    [] s = "Barcelona" -> <<"B", "a", "r", "c", "e", "l", "o", "n", "a">>
    [] s = "Real Madrid" -> <<"R", "e", "a", "l", " ", "M", "a", "d", "r", "i", "d">>
    [] s = "" -> <<>>
    [] s = " " -> <<" ">>
    [] s = "/en/matches/12345678/test-match-1" -> <<"/", "e", "n", "/", "m", "a", "t", "c", "h", "e", "s", "/", "1", "2", "3", "4", "5", "6", "7", "8", "/", "t", "e", "s", "t", "-", "m", "a", "t", "c", "h", "-", "1">>
    [] s = "/en/matches/87654321/test-match-2" -> <<"/", "e", "n", "/", "m", "a", "t", "c", "h", "e", "s", "/", "8", "7", "6", "5", "4", "3", "2", "1", "/", "t", "e", "s", "t", "-", "m", "a", "t", "c", "h", "-", "2">>
    [] s = "invalid-url" -> <<"i", "n", "v", "a", "l", "i", "d", "-", "u", "r", "l">>
    [] s = "Thursday" -> <<"T", "h", "u", "r", "s", "d", "a", "y">>
    [] s = "Friday" -> <<"F", "r", "i", "d", "a", "y">>
    [] s = "note" -> <<"n", "o", "t", "e">>

Digits == <<"0", "1", "2", "3", "4", "5", "6", "7", "8", "9">>
IsDigit(c) == \E i \in 1..10 : Digits[i] = c
DigitVal(c) == (CHOOSE i \in 1..10 : Digits[i] = c) - 1
IsHexLower(c) == IsDigit(c) \/ c \in {"a", "b", "c", "d", "e", "f"}
IsSpace(c) == c \in {" ", "\t", "\n", "\r"}

\* the decimal digits of a natural number
RECURSIVE NatChars(_)
NatChars(k) == IF k < 10 THEN <<Digits[k + 1]>> ELSE NatChars(k \div 10) \o <<Digits[(k % 10) + 1]>>

Pad2(k) == IF k < 10 THEN <<"0">> \o NatChars(k) ELSE NatChars(k)
Pad4(k) == IF k < 10 THEN <<"0", "0", "0">> \o NatChars(k)
           ELSE IF k < 100 THEN <<"0", "0">> \o NatChars(k)
           ELSE IF k < 1000 THEN <<"0">> \o NatChars(k)
           ELSE NatChars(k)

\* str(value): the characters of a cell's text
StrOf(c) ==
    CASE c.t = "str" -> Chars(c.s)
    [] c.t = "int" -> IF c.n < 0 THEN <<"-">> \o NatChars(-c.n) ELSE NatChars(c.n)
    [] c.t = "float" -> (IF c.n < 0 THEN <<"-">> \o NatChars(-c.n) ELSE NatChars(c.n)) \o <<".", "0">>
    [] c.t = "date" -> Pad4(c.n \div 10000) \o <<"-">> \o Pad2((c.n \div 100) % 100) \o <<"-">> \o Pad2(c.n % 100)
    [] c.t = "null" -> <<"n", "a", "n">>

\* str.strip(): leading and trailing whitespace removed
RECURSIVE LStrip(_)
LStrip(cs) == IF cs # <<>> /\ IsSpace(Head(cs)) THEN LStrip(Tail(cs)) ELSE cs
RECURSIVE RStrip(_)
RStrip(cs) == IF cs # <<>> /\ IsSpace(cs[Len(cs)]) THEN RStrip(SubSeq(cs, 1, Len(cs) - 1)) ELSE cs
Strip(cs) == RStrip(LStrip(cs))

\* a regex's $ matches at the end and before a final newline: the text without that newline
DropFinalNewline(cs) == IF cs # <<>> /\ cs[Len(cs)] = "\n" THEN SubSeq(cs, 1, Len(cs) - 1) ELSE cs

\* DATE_PATTERN.match(text), DATE_PATTERN = ^\d{4}-\d{2}-\d{2}$
DATE_PATTERN(cs) ==
    LET b == DropFinalNewline(cs) IN
    /\ Len(b) = 10
    /\ \A i \in {1, 2, 3, 4, 6, 7, 9, 10} : IsDigit(b[i])
    /\ b[5] = "-"
    /\ b[8] = "-"

\* MATCH_REPORT_PATTERN.match(text), MATCH_REPORT_PATTERN = ^/en/matches/[a-f0-9]{8}/.*$
MATCH_REPORT_PATTERN(cs) ==
    LET b == DropFinalNewline(cs) IN
    /\ Len(b) >= 21
    /\ SubSeq(b, 1, 12) = <<"/", "e", "n", "/", "m", "a", "t", "c", "h", "e", "s", "/">>
    /\ \A i \in 13..20 : IsHexLower(b[i])
    /\ b[21] = "/"
    /\ \A i \in 22..Len(b) : b[i] # "\n"

(***************************************************************************)
(* Calendar dates, as <<year, month, day>>.                                *)
(***************************************************************************)
IsLeap(y) == (y % 4 = 0 /\ y % 100 # 0) \/ y % 400 = 0
DaysInMonth(y, m) ==
    IF m = 2 THEN (IF IsLeap(y) THEN 29 ELSE 28)
    ELSE IF m \in {4, 6, 9, 11} THEN 30 ELSE 31

\* datetime.strptime(text, '%Y-%m-%d').date() of a text DATE_PATTERN accepts:
\* ok = FALSE stands for the ValueError
strptime(cs) ==
    IF Len(cs) # 10 THEN [ok |-> FALSE, d |-> <<0, 0, 0>>]
    ELSE
    LET y == DigitVal(cs[1]) * 1000 + DigitVal(cs[2]) * 100 + DigitVal(cs[3]) * 10 + DigitVal(cs[4])
        m == DigitVal(cs[6]) * 10 + DigitVal(cs[7])
        d == DigitVal(cs[9]) * 10 + DigitVal(cs[10])
    IN [ok |-> y >= 1 /\ m \in 1..12 /\ d >= 1 /\ d <= DaysInMonth(y, m), d |-> <<y, m, d>>]

\* d1 > d2 on dates
DateAfter(d1, d2) ==
    \/ d1[1] > d2[1]
    \/ (d1[1] = d2[1] /\ d1[2] > d2[2])
    \/ (d1[1] = d2[1] /\ d1[2] = d2[2] /\ d1[3] > d2[3])

\* date.today() during the runs
Today == <<2025, 9, 1>>

(***************************************************************************)
(* Schema registry: the class constants of DataValidator.                  *)
(***************************************************************************)
\* the keys of EXPECTED_SCHEMA, in the dict's order
SchemaColumns ==
    <<"league", "season", "date", "home_team", "away_team", "match_report",
      "home_score", "away_score", "day_of_week">>

\* the values of EXPECTED_SCHEMA, each made a tuple of types as _validate_data_types does
EXPECTED_SCHEMA(column) ==
    CASE column = "league" -> {"str"}
    [] column = "season" -> {"str", "int"}
    [] column = "date" -> {"str", "datetime.date"}
    [] column = "home_team" -> {"str"}
    [] column = "away_team" -> {"str"}
    [] column = "match_report" -> {"str", "NoneType"}
    [] column = "home_score" -> {"float", "int", "NoneType"}
    [] column = "away_score" -> {"float", "int", "NoneType"}
    [] column = "day_of_week" -> {"str"}

VALID_LEAGUES ==
    {"ENG-Premier League", "ESP-La Liga", "ITA-Serie A", "GER-Bundesliga",
     "FRA-Ligue 1", "Big 5 European Leagues Combined"}

Range(f) == {f[i] : i \in DOMAIN f}

(***************************************************************************)
(* DataFrames: cols is df.columns, rows[i][c] the cell of row i-1 (the     *)
(* index is the default 0, 1, 2, ...) in column c.                         *)
(***************************************************************************)
len(d) == Len(d.rows)
HasColumn(d, c) == c \in Range(d.cols)

\* df[...].index.tolist(): the index labels of the rows satisfying P, ascending
RowsWhere(d, P(_)) == SelectSeq([i \in 1..len(d) |-> i - 1], LAMBDA k : P(d.rows[k + 1]))

\* a row list that is not cut
First10_Uncut(s) == s

\* invalid_rows[:10] and the like
First10(s) == IF Len(s) > 10 THEN SubSeq(s, 1, 10) ELSE s

\* the dtype pandas gives a column: object as soon as a cell is a str or a date,
\* and for a column without rows; a numeric dtype (also for all-NaN) otherwise
IsObjectColumn(d, c) == len(d) = 0 \/ \E i \in 1..len(d) : d.rows[i][c].t \in {"str", "date"}

(***************************************************************************)
(* Findings: the dicts the checkers append.  Every finding carries the     *)
(* same fields; a key the dict does not have holds "", <<>>, {} or -1.     *)
(* total is the dict's total_invalid / total_count / total_empty /         *)
(* total_duplicates / missing_count; message is the f-string's parts;      *)
(* columns is the set behind list(missing_columns) (a Python set's order   *)
(* is arbitrary but fixed within a process).  The constant payloads        *)
(* valid_leagues and expected_pattern are left to the type.                *)
(***************************************************************************)
Finding(type, severity, column, message, rows, total) ==
    [type |-> type, severity |-> severity, column |-> column, message |-> message,
     rows |-> rows, total |-> total, columns |-> {},
     missing_percentage |-> -1, threshold |-> -1]

\* what a checker hands back: its findings, or the exception it raised
Checked(errors, warnings) == [errors |-> errors, warnings |-> warnings, exc |-> ""]
Raised(exc) == [errors |-> <<>>, warnings |-> <<>>, exc |-> exc]

\* the concatenation of F(s[1]), F(s[2]), ...: a loop that extends a list
ConcatMap(s, F(_)) ==
    LET cm[i \in 0..Len(s)] == IF i = 0 THEN <<>> ELSE cm[i - 1] \o F(s[i])
    IN cm[Len(s)]

(***************************************************************************)
(* The validator's configuration.                                          *)
(***************************************************************************)
default_config ==
    [min_quality_score |-> 95, max_missing_percentage |-> 5,
     allow_future_matches |-> TRUE, strict_league_validation |-> TRUE,
     enable_duplicate_check |-> TRUE]

\* default_config.update(user_config)
DictUpdate(d, u) == [k \in (DOMAIN d) \cup (DOMAIN u) |-> IF k \in DOMAIN u THEN u[k] ELSE d[k]]

(***************************************************************************)
(* Rule checkers.                                                          *)
(***************************************************************************)
\* a schema check that overlooks the missing columns
validate_schema_NoMissingCheck(d) ==
    LET unexpected_columns == Range(d.cols) \ Range(SchemaColumns)
    IN IF unexpected_columns # {}
       THEN <<[Finding("schema_warning", "warning", "", <<"Unexpected columns found: ">>, <<>>, -1)
                EXCEPT !.columns = unexpected_columns]>>
       ELSE <<>>

\* _validate_schema: both findings go to the list the caller extends errors with
validate_schema(d) ==
    LET missing_columns == Range(SchemaColumns) \ Range(d.cols)
        unexpected_columns == Range(d.cols) \ Range(SchemaColumns)
    IN (IF missing_columns # {}
        THEN <<[Finding("schema_error", "critical", "", <<"Missing required columns: ">>, <<>>, -1)
                 EXCEPT !.columns = missing_columns]>>
        ELSE <<>>)
       \o
       (IF unexpected_columns # {}
        THEN <<[Finding("schema_warning", "warning", "", <<"Unexpected columns found: ">>, <<>>, -1)
                 EXCEPT !.columns = unexpected_columns]>>
        ELSE <<>>)

\* isinstance(value, t) for the types named in the schema
IsInstance(c, ty) == c.t = ty

\* a type test that takes the first type of each schema entry for the only one
InvalidType_FirstTypeOnly(column, value) ==
    IF column \in {"home_score", "away_score"} THEN value.t # "float"
    ELSE value.t # "str"

\* the test _validate_data_types makes on one cell of a column
InvalidType(column, value) ==
    IF isna(value)
    THEN "NoneType" \notin EXPECTED_SCHEMA(column)
    ELSE IF column = "date" /\ value.t = "date"
    THEN FALSE
    ELSE ~ \E ty \in EXPECTED_SCHEMA(column) \ {"NoneType", "datetime.date"} : IsInstance(value, ty)

\* _validate_data_types
validate_data_types(d) ==
    LET OneColumn(column) ==
            IF ~HasColumn(d, column) THEN <<>>
            ELSE LET invalid_rows == RowsWhere(d, LAMBDA r : InvalidType(column, r[column]))
                 IN IF invalid_rows # <<>>
                    THEN <<Finding("data_type_error", "high", column,
                                   <<"Invalid data types in column '", column, "'">>,
                                   First10(invalid_rows), Len(invalid_rows))>>
                    ELSE <<>>
    IN ConcatMap(SchemaColumns, OneColumn)

\* what the loop of _validate_dates makes of one cell: invalid, or a date
ParseDateCell(value) ==
    IF isna(value) THEN [ok |-> FALSE, d |-> <<0, 0, 0>>]
    ELSE IF value.t = "date"
    THEN [ok |-> TRUE, d |-> <<value.n \div 10000, (value.n \div 100) % 100, value.n % 100>>]
    ELSE IF ~DATE_PATTERN(StrOf(value)) THEN [ok |-> FALSE, d |-> <<0, 0, 0>>]
    ELSE strptime(StrOf(value))

\* _validate_dates
validate_dates(d, cfg) ==
    IF ~HasColumn(d, "date") THEN Checked(<<>>, <<>>)
    ELSE
    LET invalid_dates == RowsWhere(d, LAMBDA r : ~ParseDateCell(r["date"]).ok)
        future_dates == RowsWhere(d, LAMBDA r :
                            /\ ParseDateCell(r["date"]).ok
                            /\ DateAfter(ParseDateCell(r["date"]).d, Today)
                            /\ ~cfg.allow_future_matches)
    IN Checked(
         IF invalid_dates # <<>>
         THEN <<Finding("date_format_error", "high", "date", <<"Invalid date formats found">>,
                        First10(invalid_dates), Len(invalid_dates))>>
         ELSE <<>>,
         IF future_dates # <<>> /\ ~cfg.allow_future_matches
         THEN <<Finding("future_date_warning", "low", "date",
                        <<"Future dates found (may be expected for fixtures)">>,
                        First10(future_dates), Len(future_dates))>>
         ELSE <<>>)

\* league not in self.VALID_LEAGUES
InvalidLeague(value) == ~(value.t = "str" /\ value.s \in VALID_LEAGUES)

\* a league check that does not consult strict_league_validation
validate_leagues_AlwaysStrict(d, cfg) ==
    IF ~HasColumn(d, "league") THEN <<>>
    ELSE
    LET invalid_leagues == RowsWhere(d, LAMBDA r : ~isna(r["league"]) /\ InvalidLeague(r["league"]))
    IN IF invalid_leagues # <<>>
       THEN <<Finding("league_validation_error", "medium", "league", <<"Invalid league names found">>,
                      First10(invalid_leagues), Len(invalid_leagues))>>
       ELSE <<>>

\* _validate_leagues: the rows of each offending value, value by value in the order
\* of df['league'].dropna().unique()
validate_leagues(d, cfg) ==
    IF ~HasColumn(d, "league") \/ ~cfg.strict_league_validation THEN <<>>
    ELSE
    LET n == len(d)
        league(i) == d.rows[i]["league"]
        FirstOfItsValue(i) == ~isna(league(i)) /\ ~ \E j \in 1..(i - 1) : CellEq(league(j), league(i))
        RowsOf(i) ==
            IF FirstOfItsValue(i) /\ InvalidLeague(league(i))
            THEN RowsWhere(d, LAMBDA r : CellEq(r["league"], league(i)))
            ELSE <<>>
        invalid_leagues == ConcatMap([i \in 1..n |-> i], RowsOf)
    IN IF invalid_leagues # <<>>
       THEN <<Finding("league_validation_error", "medium", "league", <<"Invalid league names found">>,
                      First10(invalid_leagues), Len(invalid_leagues))>>
       ELSE <<>>

\* Series.str: pandas refuses the accessor ("Can only use .str accessor with string
\* values!", an AttributeError) on a numeric column and on an object column whose
\* values are all dates
StrAccessorRaises(d, c) ==
    \/ ~IsObjectColumn(d, c)
    \/ /\ \E i \in 1..len(d) : d.rows[i][c].t = "date"
       /\ \A i \in 1..len(d) : d.rows[i][c].t \in {"date", "null"}

\* df[team_col].isna() | (df[team_col].str.strip() == ''), on one row
EmptyTeam(value) == isna(value) \/ (value.t = "str" /\ Strip(Chars(value.s)) = <<>>)

\* the body of the loop of _validate_teams for one team column
TeamFindings(d, team_col) ==
    LET empty_teams == RowsWhere(d, LAMBDA r : EmptyTeam(r[team_col]))
        same_team_matches == RowsWhere(d, LAMBDA r : CellEq(r["home_team"], r["away_team"]))
    IN (IF empty_teams # <<>>
        THEN <<Finding("empty_team_error", "high", team_col,
                       <<"Empty team names found in ", team_col>>,
                       First10(empty_teams), Len(empty_teams))>>
        ELSE <<>>)
       \o
       (IF HasColumn(d, "home_team") /\ HasColumn(d, "away_team") /\ same_team_matches # <<>>
        THEN <<Finding("same_team_error", "high", "", <<"Teams playing against themselves found">>,
                       First10(same_team_matches), Len(same_team_matches))>>
        ELSE <<>>)

\* _validate_teams
validate_teams(d) ==
    LET present == SelectSeq(<<"home_team", "away_team">>, LAMBDA c : HasColumn(d, c))
    IN IF \E i \in 1..Len(present) : StrAccessorRaises(d, present[i])
       THEN Raised("AttributeError")
       ELSE Checked(ConcatMap(present, LAMBDA c : TeamFindings(d, c)), <<>>)

\* df[score_col] < 0: comparing a str (or a date) with an int is a TypeError
ScoreCompareRaises(d, c) == \E i \in 1..len(d) : d.rows[i][c].t \in {"str", "date"}

\* _validate_scores
validate_scores(d) ==
    LET present == SelectSeq(<<"home_score", "away_score">>, LAMBDA c : HasColumn(d, c))
        Negative(score_col) ==
            LET negative_scores == RowsWhere(d, LAMBDA r : ~isna(r[score_col]) /\ r[score_col].n < 0)
            IN IF negative_scores # <<>>
               THEN <<Finding("negative_score_error", "high", score_col,
                              <<"Negative scores found in ", score_col>>,
                              First10(negative_scores), Len(negative_scores))>>
               ELSE <<>>
        High(score_col) ==
            LET high_scores == RowsWhere(d, LAMBDA r : ~isna(r[score_col]) /\ r[score_col].n > 20)
            IN IF high_scores # <<>>
               THEN <<Finding("high_score_warning", "low", score_col,
                              <<"Unusually high scores found in ", score_col, " (>20 goals)">>,
                              First10(high_scores), Len(high_scores))>>
               ELSE <<>>
        incomplete_scores ==
            RowsWhere(d, LAMBDA r : \/ (~isna(r["home_score"]) /\ isna(r["away_score"]))
                                    \/ (isna(r["home_score"]) /\ ~isna(r["away_score"])))
    IN IF \E i \in 1..Len(present) : ScoreCompareRaises(d, present[i])
       THEN Raised("TypeError")
       ELSE Checked(
              ConcatMap(present, Negative),
              ConcatMap(present, High)
              \o (IF Len(present) = 2 /\ incomplete_scores # <<>>
                  THEN <<Finding("incomplete_score_warning", "medium", "",
                                 <<"Incomplete score pairs found (one score present, other missing)">>,
                                 First10(incomplete_scores), Len(incomplete_scores))>>
                  ELSE <<>>))

\* a match-report check that passes over the rows without a match report
validate_match_reports_SkipsNull(d) ==
    IF ~HasColumn(d, "match_report") THEN <<>>
    ELSE
    LET invalid_reports ==
            RowsWhere(d, LAMBDA r : /\ ~isna(r["match_report"])
                                    /\ ~MATCH_REPORT_PATTERN(StrOf(r["match_report"])))
    IN IF invalid_reports # <<>>
       THEN <<Finding("match_report_error", "medium", "match_report",
                      <<"Invalid match report URLs found">>,
                      First10(invalid_reports), Len(invalid_reports))>>
       ELSE <<>>

\* _validate_match_reports
validate_match_reports(d) ==
    IF ~HasColumn(d, "match_report") THEN <<>>
    ELSE
    LET invalid_reports ==
            RowsWhere(d, LAMBDA r : \/ isna(r["match_report"])
                                    \/ ~MATCH_REPORT_PATTERN(StrOf(r["match_report"])))
    IN IF invalid_reports # <<>>
       THEN <<Finding("match_report_error", "medium", "match_report",
                      <<"Invalid match report URLs found">>,
                      First10(invalid_reports), Len(invalid_reports))>>
       ELSE <<>>

\* df.duplicated(subset, keep=False), which marks every occurrence of a repeated row
Duplicated_KeepFalse(d, subset) ==
    SelectSeq([i \in 1..len(d) |-> i - 1],
              LAMBDA k : \E j \in (1..len(d)) \ {k + 1} :
                            \A c \in subset : SameKey(d.rows[j][c], d.rows[k + 1][c]))

\* df.duplicated(subset): the index labels of the rows that repeat an earlier row on
\* the columns of subset
Duplicated(d, subset) ==
    SelectSeq([i \in 1..len(d) |-> i - 1],
              LAMBDA k : \E j \in 1..k : \A c \in subset : SameKey(d.rows[j][c], d.rows[k + 1][c]))

\* _validate_duplicates
validate_duplicates(d) ==
    LET duplicate_rows == Duplicated(d, Range(d.cols))
        match_duplicates == Duplicated(d, {"date", "home_team", "away_team"})
    IN (IF duplicate_rows # <<>>
        THEN <<Finding("duplicate_record_error", "medium", "", <<"Duplicate records found">>,
                       duplicate_rows, Len(duplicate_rows))>>
        ELSE <<>>)
       \o
       (IF {"date", "home_team", "away_team"} \subseteq Range(d.cols) /\ match_duplicates # <<>>
        THEN <<Finding("duplicate_match_error", "high", "",
                       <<"Duplicate matches found (same teams, same date)">>,
                       match_duplicates, Len(match_duplicates))>>
        ELSE <<>>)

\* the division as Python's own int would make it
DivisionRaises_PythonInt(missing_count, total_records) ==
    IF total_records = 0 THEN "ZeroDivisionError" ELSE ""

\* missing_count / total_records: missing_count is a numpy.int64 (Series.sum), so a
\* zero divisor gives nan with a RuntimeWarning and raises nothing
DivisionRaises(missing_count, total_records) == ""

\* round((missing_count / total_records) * 100, 2), in hundredths of a percent
\* (ties to even, as round does); -1 for the nan of an empty dataset
missing_percentage(missing_count, total_records) ==
    IF total_records = 0 THEN -1
    ELSE LET x == missing_count * 10000
             q == x \div total_records
             r == x % total_records
         IN IF 2 * r > total_records \/ (2 * r = total_records /\ q % 2 = 1) THEN q + 1 ELSE q

\* df[column].isna().sum()
MissingCount(d, column) == Cardinality({i \in 1..len(d) : isna(d.rows[i][column])})

\* a completeness check that takes a column at the threshold for one above it
CompletenessOf_AtThreshold(d, cfg, column) ==
    LET total_records == len(d)
        max_missing_records == (total_records * cfg.max_missing_percentage) \div 100
        missing_count == MissingCount(d, column)
        critical_columns == {"league", "date", "home_team", "away_team"}
        severity == IF column \in critical_columns THEN "critical" ELSE "high"
    IN IF missing_count > 0 /\ missing_count >= max_missing_records
       THEN Checked(<<[Finding("completeness_error", severity, column,
                               <<"Too many missing values in ", column>>, <<>>, missing_count)
                        EXCEPT !.missing_percentage = missing_percentage(missing_count, total_records),
                               !.threshold = cfg.max_missing_percentage]>>,
                    <<>>)
       ELSE IF missing_count > 0
       THEN Checked(<<>>,
                    <<[Finding("completeness_warning", "low", column,
                               <<"Some missing values in ", column>>, <<>>, missing_count)
                        EXCEPT !.missing_percentage = missing_percentage(missing_count, total_records)]>>)
       ELSE Checked(<<>>, <<>>)

\* the body of the loop of _validate_completeness for one column
CompletenessOf(d, cfg, column) ==
    LET total_records == len(d)
        max_missing_records == (total_records * cfg.max_missing_percentage) \div 100
        missing_count == MissingCount(d, column)
        critical_columns == {"league", "date", "home_team", "away_team"}
        severity == IF column \in critical_columns THEN "critical" ELSE "high"
    IN IF missing_count > max_missing_records
       THEN Checked(<<[Finding("completeness_error", severity, column,
                               <<"Too many missing values in ", column>>, <<>>, missing_count)
                        EXCEPT !.missing_percentage = missing_percentage(missing_count, total_records),
                               !.threshold = cfg.max_missing_percentage]>>,
                    <<>>)
       ELSE IF missing_count > 0
       THEN Checked(<<>>,
                    <<[Finding("completeness_warning", "low", column,
                               <<"Some missing values in ", column>>, <<>>, missing_count)
                        EXCEPT !.missing_percentage = missing_percentage(missing_count, total_records)]>>)
       ELSE Checked(<<>>, <<>>)

\* _validate_completeness
validate_completeness(d, cfg) ==
    IF \E i \in 1..Len(d.cols) : DivisionRaises(MissingCount(d, d.cols[i]), len(d)) # ""
    THEN Raised("ZeroDivisionError")
    ELSE Checked(ConcatMap(d.cols, LAMBDA c : CompletenessOf(d, cfg, c).errors),
                 ConcatMap(d.cols, LAMBDA c : CompletenessOf(d, cfg, c).warnings))

(***************************************************************************)
(* Quality scorer.                                                         *)
(***************************************************************************)
\* a deduction table with the high and medium weights swapped
ErrorDeduction_Swapped(severity) ==
    IF severity = "critical" THEN 20
    ELSE IF severity = "high" THEN 5
    ELSE IF severity = "medium" THEN 10
    ELSE 2

ErrorDeduction(severity) ==
    IF severity = "critical" THEN 20
    ELSE IF severity = "high" THEN 10
    ELSE IF severity = "medium" THEN 5
    ELSE 2

WarningDeduction(severity) == IF severity = "medium" THEN 2 ELSE 1

\* the lower end of the score scale: max(0.0, score)
ScoreFloor == 0

\* the score the deductions start from
ScoreStart == 100

\* the score of a dataset without rows
EmptyScore == 0

\* a loop over the errors that counts the first of them twice
DeductErrors_FirstCountsTwice(score, errors) ==
    LET deduct[i \in 0..Len(errors)] ==
            IF i = 0 THEN score ELSE deduct[i - 1] - ErrorDeduction(errors[i].severity)
    IN IF errors = <<>> THEN score ELSE deduct[Len(errors)] - ErrorDeduction(errors[1].severity)

\* the two loops of _calculate_quality_score
RECURSIVE DeductErrors(_, _)
DeductErrors(score, errors) ==
    IF errors = <<>> THEN score
    ELSE DeductErrors(score - ErrorDeduction(Head(errors).severity), Tail(errors))

RECURSIVE DeductWarnings(_, _)
DeductWarnings(score, warnings) ==
    IF warnings = <<>> THEN score
    ELSE DeductWarnings(score - WarningDeduction(Head(warnings).severity), Tail(warnings))

Max(a, b) == IF a >= b THEN a ELSE b

\* a scorer that forgets the final max(0.0, score)
calculate_quality_score_NoClamp(d, errors, warnings) ==
    IF len(d) = 0 THEN EmptyScore
    ELSE DeductWarnings(DeductErrors(ScoreStart, errors), warnings)

\* _calculate_quality_score
calculate_quality_score(d, errors, warnings) ==
    IF len(d) = 0 THEN EmptyScore
    ELSE Max(ScoreFloor, DeductWarnings(DeductErrors(ScoreStart, errors), warnings))

(***************************************************************************)
(* Orchestrator.                                                           *)
(***************************************************************************)
\* errors[:5], warnings[:3]
FirstK(s, k) == IF Len(s) > k THEN SubSeq(s, 1, k) ELSE s

\* _create_summary: the fields the text is formatted from
create_summary(total_records, errors, warnings, quality_score, source_name) ==
    [status |-> IF Len(errors) = 0 THEN "PASSED" ELSE "FAILED",
     source |-> source_name,
     total_records |-> total_records,
     quality_score |-> quality_score,
     errors |-> Len(errors),
     warnings |-> Len(warnings),
     error_lines |-> [i \in 1..Len(FirstK(errors, 5)) |-> errors[i].message],
     more_errors |-> IF Len(errors) > 5 THEN Len(errors) - 5 ELSE 0,
     warning_lines |-> [i \in 1..Len(FirstK(warnings, 3)) |-> warnings[i].message],
     more_warnings |-> IF Len(warnings) > 3 THEN Len(warnings) - 3 ELSE 0]

\* a verdict that looks at the errors alone
IsValid_ErrorsOnly(errors, quality_score, cfg) == Len(errors) = 0

\* is_valid as validate_dataframe decides it
IsValid(errors, quality_score, cfg) == Len(errors) = 0 /\ quality_score >= cfg.min_quality_score

\* a call that raised returns nothing
NoSummary == create_summary(0, <<>>, <<>>, 0, "")
Propagated(exc) ==
    [exc |-> exc, is_valid |-> FALSE, total_records |-> 0, errors |-> <<>>, warnings |-> <<>>,
     quality_score |-> 0, summary |-> NoSummary]

\* validate_dataframe: the ValidationResult (exc = ""), or the exception that reaches the caller
validate_dataframe(d, cfg, source_name) ==
    LET total_records == len(d)
        schema_errors == validate_schema(d)
        type_errors == validate_data_types(d)
        dates == validate_dates(d, cfg)
        league_errors == validate_leagues(d, cfg)
        teams == validate_teams(d)
        scores == validate_scores(d)
        report_errors == validate_match_reports(d)
        duplicate_errors == IF cfg.enable_duplicate_check THEN validate_duplicates(d) ELSE <<>>
        completeness == validate_completeness(d, cfg)
        errors == schema_errors \o type_errors \o dates.errors \o league_errors \o teams.errors
                  \o scores.errors \o report_errors \o duplicate_errors \o completeness.errors
        warnings == dates.warnings \o scores.warnings \o completeness.warnings
        quality_score == calculate_quality_score(d, errors, warnings)
    IN IF teams.exc # "" THEN Propagated(teams.exc)
       ELSE IF scores.exc # "" THEN Propagated(scores.exc)
       ELSE IF completeness.exc # "" THEN Propagated(completeness.exc)
       ELSE [exc |-> "",
             is_valid |-> IsValid(errors, quality_score, cfg),
             total_records |-> total_records,
             errors |-> errors,
             warnings |-> warnings,
             quality_score |-> quality_score,
             summary |-> create_summary(total_records, errors, warnings, quality_score, source_name)]

\* the nine rule checkers validate_dataframe calls, in the order it calls them
Checkers ==
    <<"schema", "data_types", "dates", "leagues", "teams", "scores", "match_reports",
      "duplicates", "completeness">>

\* one of the calls self._validate_...(df) of validate_dataframe, with what it extends
\* errors and warnings by; the duplicate check is called if the configuration enables it
run_checker(name, d, cfg) ==
    CASE name = "schema" -> Checked(validate_schema(d), <<>>)
    [] name = "data_types" -> Checked(validate_data_types(d), <<>>)
    [] name = "dates" -> validate_dates(d, cfg)
    [] name = "leagues" -> Checked(validate_leagues(d, cfg), <<>>)
    [] name = "teams" -> validate_teams(d)
    [] name = "scores" -> validate_scores(d)
    [] name = "match_reports" -> Checked(validate_match_reports(d), <<>>)
    [] name = "duplicates" ->
          Checked(IF cfg.enable_duplicate_check THEN validate_duplicates(d) ELSE <<>>, <<>>)
    [] name = "completeness" -> validate_completeness(d, cfg)

(***************************************************************************)
(* Construction of the validator.                                          *)
(***************************************************************************)
EmptyDict == [k \in {} |-> 0]

\* what DataValidator(config_path) finds at config_path: no path or no file
\* (exists = FALSE), a file that open or json.load fails on (parses = FALSE), or a
\* JSON document. object = TRUE: the document is an object with the members json.
\* object = FALSE: it is an array that begins with the [key, value] pairs json and
\* goes on with an element that is not a pair
ConfigFile(exists, parses, json) ==
    [exists |-> exists, parses |-> parses, json |-> json, object |-> TRUE]

ConfigFiles ==
    {ConfigFile(FALSE, FALSE, EmptyDict),
     ConfigFile(TRUE, FALSE, EmptyDict),
     ConfigFile(TRUE, TRUE, EmptyDict),
     ConfigFile(TRUE, TRUE, [min_quality_score |-> 100]),
     ConfigFile(TRUE, TRUE, [strict_league_validation |-> FALSE]),
     ConfigFile(TRUE, TRUE, [enable_duplicate_check |-> FALSE]),
     ConfigFile(TRUE, TRUE, [allow_future_matches |-> FALSE]),
     ConfigFile(TRUE, TRUE, [max_missing_percentage |-> 50])}

\* _load_config: default_config.update(user_config) adds the members of an object
\* one by one; of an array it adds the pairs up to the first element that is not
\* one and raises there, and the except clause goes on with the dict as it then is
load_config(file) ==
    IF file.exists /\ file.parses THEN DictUpdate(default_config, file.json) ELSE default_config

(***************************************************************************)
(* validate_csv_file.  A CSV file holds text: a cell is a number, a text or *)
(* an empty field.                                                         *)
(***************************************************************************)
\* the text is a number to pd.read_csv
IsNumeral(cs) == cs # <<>> /\ \A i \in 1..Len(cs) : IsDigit(cs[i])

NumeralValue(cs) ==
    LET val[i \in 0..Len(cs)] == IF i = 0 THEN 0 ELSE val[i - 1] * 10 + DigitVal(cs[i])
    IN val[Len(cs)]

\* an empty field, which pd.read_csv reads as NaN
IsEmptyField(value) == isna(value) \/ value = StrV("")

\* pd.read_csv infers a numeric dtype for a column whose fields are all numbers or empty
IsNumericField(value) ==
    IsEmptyField(value) \/ IsNumber(value) \/ (value.t = "str" /\ IsNumeral(Chars(value.s)))

\* the rows can be the content of a CSV file: no date objects, and no number among
\* the texts of a column
CsvContent(d) ==
    \A c \in Range(d.cols) :
        /\ \A i \in 1..len(d) : d.rows[i][c].t # "date"
        /\ \/ \A i \in 1..len(d) : IsNumericField(d.rows[i][c])
           \/ \A i \in 1..len(d) : ~IsNumber(d.rows[i][c])

\* pd.read_csv(file_path) on a file with the rows d
read_csv(d) ==
    LET numeric(c) == \A i \in 1..len(d) : IsNumericField(d.rows[i][c])
        hasna(c) == \E i \in 1..len(d) : IsEmptyField(d.rows[i][c])
        number(c, k) == IF hasna(c) THEN FloatV(k) ELSE IntV(k)
        cell(c, value) ==
            IF IsEmptyField(value) THEN NaN
            ELSE IF ~numeric(c) THEN value
            ELSE IF value.t = "str" THEN number(c, NumeralValue(Chars(value.s)))
            ELSE IF value.t = "int" THEN number(c, value.n)
            ELSE value
    IN [cols |-> d.cols,
        rows |-> [i \in 1..len(d) |-> [c \in Range(d.cols) |-> cell(c, d.rows[i][c])]]]

\* what validate_csv_file finds at file_path: nothing (exists = FALSE), a file
\* pd.read_csv raises on (parses = FALSE), or a file pd.read_csv reads
CsvFile(path, exists, parses) == [path |-> path, exists |-> exists, parses |-> parses]

\* validate_csv_file, on a file with the rows d
validate_csv_file(file, d, cfg) ==
    IF ~file.exists THEN Propagated("ValidationError")
    ELSE IF ~file.parses THEN Propagated("ValidationError")
    ELSE validate_dataframe(read_csv(d), cfg, file.path)

(***************************************************************************)
(* generate_report.  A path is the sequence of its components ("/" first   *)
(* in an absolute path); a disk has directories, files and a switch for    *)
(* the permission to write.                                                *)
(***************************************************************************)
\* os.path.dirname(output_path); << >> is the empty string
dirname(path) == SubSeq(path, 1, Len(path) - 1)

\* a directory and the directories above it
Prefixes(dir) == {SubSeq(dir, 1, k) : k \in 1..Len(dir)}

\* the outcome of a step on the disk
DiskOutcome(d, exc) == [disk |-> d, exc |-> exc]

\* os.makedirs(dir, exist_ok=True)
makedirs(d, dir) ==
    IF dir = <<>> THEN DiskOutcome(d, "FileNotFoundError")
    ELSE IF \E p \in Prefixes(dir) : p \in DOMAIN d.files THEN DiskOutcome(d, "FileExistsError")
    ELSE IF ~d.writable /\ ~(Prefixes(dir) \subseteq d.dirs) THEN DiskOutcome(d, "PermissionError")
    ELSE DiskOutcome([d EXCEPT !.dirs = @ \cup Prefixes(dir)], "")

\* with open(output_path, 'w') as f: the content is written
write_file(d, path, content) ==
    IF path \in d.dirs THEN DiskOutcome(d, "IsADirectoryError")
    ELSE IF ~d.writable THEN DiskOutcome(d, "PermissionError")
    ELSE DiskOutcome([d EXCEPT !.files = [p \in (DOMAIN @) \cup {path} |->
                                             IF p = path THEN content ELSE @[p]]], "")

\* report_data of _generate_json_report, without the timestamp
json_report(result, cfg) ==
    [format |-> "json",
     is_valid |-> result.is_valid,
     total_records |-> result.total_records,
     quality_score |-> result.quality_score,
     summary |-> result.summary,
     errors |-> result.errors,
     warnings |-> result.warnings,
     config_used |-> cfg]

\* html_content of _generate_html_report, without the time of generation: of a
\* finding the page shows the type and the message
html_report(result) ==
    LET Shown(findings) ==
            [i \in 1..Len(findings) |-> [type |-> findings[i].type, message |-> findings[i].message]]
    IN [format |-> "html",
        status |-> IF result.is_valid THEN "PASSED" ELSE "FAILED",
        quality_score |-> result.quality_score,
        total_records |-> result.total_records,
        summary |-> result.summary,
        errors |-> Shown(result.errors),
        warnings |-> Shown(result.warnings)]

\* format_type.lower()
lower(format_type) ==
    CASE format_type = "JSON" -> "json"
    [] format_type = "HTML" -> "html"
    [] OTHER -> format_type

\* _generate_json_report and _generate_html_report from os.makedirs on
save_report(d, output_path, content) ==
    LET made == makedirs(d, dirname(output_path))
    IN IF made.exc # "" THEN made ELSE write_file(made.disk, output_path, content)

\* generate_report
generate_report(d, result, output_path, format_type, cfg) ==
    IF lower(format_type) = "json" THEN save_report(d, output_path, json_report(result, cfg))
    ELSE IF lower(format_type) = "html" THEN save_report(d, output_path, html_report(result))
    ELSE DiskOutcome(d, "ValueError")

(***************************************************************************)
(* error_handler: the circuit breaker.                                     *)
(***************************************************************************)
\* the last_failure_time of a breaker that saw no failure (None)
NoTime == -1

\* CircuitBreaker.__init__
CircuitBreaker(failure_threshold, recovery_timeout) ==
    [failure_threshold |-> failure_threshold,
     recovery_timeout |-> recovery_timeout,
     failure_count |-> 0,
     last_failure_time |-> NoTime,
     state |-> "CLOSED"]

\* what a call of CircuitBreaker.call did: the breaker after it, the state func was
\* invoked in ("" if it was not invoked), and the type and the message of the
\* exception the call raised ("" if it returned)
CallOutcome(cb, entered, exc, message) ==
    [circuit |-> cb, invoked |-> entered # "", entered |-> entered, exc |-> exc, message |-> message]

\* a breaker that counts the calls it refuses among the failures
call_CountsRefusals(cb, now, func_raises) ==
    IF cb.state = "OPEN" /\ ~(now - cb.last_failure_time > cb.recovery_timeout)
    THEN CallOutcome([cb EXCEPT !.failure_count = @ + 1], "", "SoccerDataError",
                     "Circuit breaker is OPEN - too many failures")
    ELSE IF func_raises
    THEN CallOutcome([cb EXCEPT !.failure_count = @ + 1, !.last_failure_time = now,
                               !.state = IF cb.failure_count + 1 >= cb.failure_threshold
                                         THEN "OPEN" ELSE "CLOSED"],
                     IF cb.state = "OPEN" THEN "HALF_OPEN" ELSE cb.state,
                     "ConnectionError", "Test failure")
    ELSE CallOutcome([cb EXCEPT !.state = "CLOSED",
                               !.failure_count = IF cb.state = "OPEN" THEN 0 ELSE @],
                     IF cb.state = "OPEN" THEN "HALF_OPEN" ELSE cb.state, "", "")

\* a breaker that closes after a trial call without forgetting the failures
call_KeepsCountOnRecovery(cb, now, func_raises) ==
    IF cb.state = "OPEN" /\ ~(now - cb.last_failure_time > cb.recovery_timeout)
    THEN CallOutcome(cb, "", "SoccerDataError", "Circuit breaker is OPEN - too many failures")
    ELSE
    LET entered == IF cb.state = "OPEN" THEN [cb EXCEPT !.state = "HALF_OPEN"] ELSE cb
    IN IF ~func_raises
       THEN CallOutcome([entered EXCEPT !.state = "CLOSED"], entered.state, "", "")
       ELSE LET failed == [entered EXCEPT !.failure_count = @ + 1, !.last_failure_time = now]
            IN CallOutcome(IF failed.failure_count >= failed.failure_threshold
                           THEN [failed EXCEPT !.state = "OPEN"]
                           ELSE failed,
                           entered.state, "ConnectionError", "Test failure")

\* a breaker that forgets the failures at every call that succeeds
call_SuccessResets(cb, now, func_raises) ==
    IF cb.state = "OPEN" /\ ~(now - cb.last_failure_time > cb.recovery_timeout)
    THEN CallOutcome(cb, "", "SoccerDataError", "Circuit breaker is OPEN - too many failures")
    ELSE
    LET entered == IF cb.state = "OPEN" THEN [cb EXCEPT !.state = "HALF_OPEN"] ELSE cb
    IN IF ~func_raises
       THEN CallOutcome([entered EXCEPT !.state = "CLOSED", !.failure_count = 0],
                        entered.state, "", "")
       ELSE LET failed == [entered EXCEPT !.failure_count = @ + 1, !.last_failure_time = now]
            IN CallOutcome(IF failed.failure_count >= failed.failure_threshold
                           THEN [failed EXCEPT !.state = "OPEN"]
                           ELSE failed,
                           entered.state, "ConnectionError", "Test failure")

\* CircuitBreaker.call at time now, of a func that raises an Exception (func_raises)
\* or returns
call(cb, now, func_raises) ==
    IF cb.state = "OPEN" /\ ~(now - cb.last_failure_time > cb.recovery_timeout)
    THEN CallOutcome(cb, "", "SoccerDataError", "Circuit breaker is OPEN - too many failures")
    ELSE
    LET entered == IF cb.state = "OPEN" THEN [cb EXCEPT !.state = "HALF_OPEN"] ELSE cb
    IN IF ~func_raises
       THEN CallOutcome(IF entered.state = "HALF_OPEN"
                        THEN [entered EXCEPT !.state = "CLOSED", !.failure_count = 0]
                        ELSE entered,
                        entered.state, "", "")
       ELSE LET failed == [entered EXCEPT !.failure_count = @ + 1, !.last_failure_time = now]
            IN CallOutcome(IF failed.failure_count >= failed.failure_threshold
                           THEN [failed EXCEPT !.state = "OPEN"]
                           ELSE failed,
                           entered.state, "ConnectionError", "Test failure")

(***************************************************************************)
(* error_handler: retry_with_backoff.  An exception is its type and the    *)
(* number of the invocation that raised it; so is a returned value.        *)
(***************************************************************************)
ExceptionTypes == {"ConnectionError", "TimeoutError", "ValueError"}
Exc(type, n) == [type |-> type, n |-> n]
None == Exc("None", 0)

\* the exceptions argument: the types an except clause with that tuple catches
ExceptionTuples == {ExceptionTypes, {"ConnectionError", "TimeoutError"}}

\* the retry_on argument: None, or a predicate that holds of connection errors alone
RetryOnArguments == {"", "is_connection_error"}
retry_on(name, e) == e.type = "ConnectionError"

RECURSIVE Pow(_, _)
Pow(b, k) == IF k = 0 THEN 1 ELSE b * Pow(b, k - 1)

\* retry_with_backoff(...)(func), at the start of a call of the wrapper: with
\* range(max_attempts) empty the loop is skipped and "raise last_exception" raises
\* None, a TypeError
retry_with_backoff(max_attempts, backoff_factor, base_delay, exceptions, retry_on_name) ==
    [max_attempts |-> max_attempts,
     backoff_factor |-> backoff_factor,
     base_delay |-> base_delay,
     exceptions |-> exceptions,
     retry_on |-> retry_on_name,
     attempt |-> 0,
     last_exception |-> None,
     invocations |-> <<>>,
     slept |-> <<>>,
     status |-> IF max_attempts >= 1 THEN "running" ELSE "raised",
     result |-> 0,
     raised |-> IF max_attempts >= 1 THEN None ELSE Exc("TypeError", 0)]

\* the invocation of func in the loop returns value: the wrapper returns it
func_returned(w, value) ==
    [w EXCEPT !.invocations = Append(@, [ok |-> TRUE, value |-> value, exc |-> None]),
              !.status = "returned",
              !.result = value]

\* a wrapper that raises the first exception it caught when the attempts are used up
func_raised_KeepsFirst(w, e) ==
    LET invoked == [w EXCEPT !.invocations = Append(@, [ok |-> FALSE, value |-> 0, exc |-> e])]
        caught == [invoked EXCEPT !.last_exception = IF @ = None THEN e ELSE @]
    IN IF e.type \notin w.exceptions
       THEN [invoked EXCEPT !.status = "raised", !.raised = e]
       ELSE IF w.retry_on # "" /\ ~retry_on(w.retry_on, e)
       THEN [caught EXCEPT !.status = "raised", !.raised = e]
       ELSE IF w.attempt = w.max_attempts - 1
       THEN [caught EXCEPT !.status = "raised", !.raised = caught.last_exception]
       ELSE [caught EXCEPT !.slept = Append(@, w.base_delay * Pow(w.backoff_factor, w.attempt)),
                           !.attempt = @ + 1]

\* the invocation of func in the loop raises e
func_raised(w, e) ==
    LET invoked == [w EXCEPT !.invocations = Append(@, [ok |-> FALSE, value |-> 0, exc |-> e])]
        caught == [invoked EXCEPT !.last_exception = e]
    IN IF e.type \notin w.exceptions
       THEN [invoked EXCEPT !.status = "raised", !.raised = e]
       ELSE IF w.retry_on # "" /\ ~retry_on(w.retry_on, e)
       THEN [caught EXCEPT !.status = "raised", !.raised = e]
       ELSE IF w.attempt = w.max_attempts - 1
       THEN [caught EXCEPT !.status = "raised", !.raised = caught.last_exception]
       ELSE [caught EXCEPT !.slept = Append(@, w.base_delay * Pow(w.backoff_factor, w.attempt)),
                           !.attempt = @ + 1]

(***************************************************************************)
(* error_handler: smart_retry.  The exceptions of requests are named with  *)
(* their module; an HTTPError carries the status code of its response.     *)
(***************************************************************************)
\* class RetryConfig
RetryConfig ==
    [NETWORK_RETRIES |-> 3, NETWORK_BACKOFF_FACTOR |-> 2, NETWORK_BASE_DELAY |-> 1,
     RATE_LIMIT_RETRIES |-> 3, RATE_LIMIT_BACKOFF_FACTOR |-> 2, RATE_LIMIT_BASE_DELAY |-> 30,
     SERVER_ERROR_RETRIES |-> 2, SERVER_ERROR_BACKOFF_FACTOR |-> 2, SERVER_ERROR_BASE_DELAY |-> 1,
     PARSING_RETRIES |-> 0]

\* requests.exceptions.HTTPError, by the status code of the response
HTTPErrors == {"requests.HTTPError 429", "requests.HTTPError 503", "requests.HTTPError 404"}

\* the subclasses of requests.exceptions.RequestException
RequestExceptions == {"requests.ConnectionError", "requests.Timeout"} \cup HTTPErrors

\* e.response.status_code
status_code(e) ==
    CASE e.type = "requests.HTTPError 429" -> 429
    [] e.type = "requests.HTTPError 503" -> 503
    [] e.type = "requests.HTTPError 404" -> 404
    [] OTHER -> 0

\* the three tests of smart_retry's wrapper
should_retry_network_error(e) == e.type \in RequestExceptions
should_retry_rate_limit(e) == e.type \in HTTPErrors /\ status_code(e) = 429
should_retry_server_error(e) == e.type \in HTTPErrors /\ 500 <= status_code(e) /\ status_code(e) < 600

\* the if/elif chain of the except clause: the strategy the wrapper goes on with
\* ("": none, the exception is raised again)
select_strategy(e) ==
    IF should_retry_network_error(e) THEN "network"
    ELSE IF should_retry_rate_limit(e) THEN "rate_limit"
    ELSE IF should_retry_server_error(e) THEN "server_error"
    ELSE ""

\* retry_func of a strategy, at the start of its call
retry_func(strategy) ==
    CASE strategy = "network" ->
            retry_with_backoff(RetryConfig.NETWORK_RETRIES, RetryConfig.NETWORK_BACKOFF_FACTOR,
                               RetryConfig.NETWORK_BASE_DELAY, {"NetworkError"} \cup RequestExceptions, "")
    [] strategy = "rate_limit" ->
            retry_with_backoff(RetryConfig.RATE_LIMIT_RETRIES, RetryConfig.RATE_LIMIT_BACKOFF_FACTOR,
                               RetryConfig.RATE_LIMIT_BASE_DELAY, {"RateLimitError"}, "")
    [] strategy = "server_error" ->
            retry_with_backoff(RetryConfig.SERVER_ERROR_RETRIES, RetryConfig.SERVER_ERROR_BACKOFF_FACTOR,
                               RetryConfig.SERVER_ERROR_BASE_DELAY, HTTPErrors, "")

\* smart_retry(func), at the start of a call of the wrapper: func is invoked once
\* outside every retry loop (status "first"); retry is the call of retry_func the
\* wrapper returns the outcome of (status "retrying"), if it makes one
smart_retry(func) ==
    [func |-> func,
     status |-> "first",
     strategy |-> "",
     first_exception |-> None,
     invocations |-> 0,
     retry |-> retry_with_backoff(1, 1, 0, {}, ""),
     result |-> 0,
     raised |-> None]

\* no call of a decorated function is under way
NoSmartCall == [smart_retry("") EXCEPT !.status = "none"]

\* an invocation of func returns value
smart_func_returned(s, value) ==
    IF s.status = "first"
    THEN [s EXCEPT !.invocations = @ + 1, !.status = "returned", !.result = value]
    ELSE LET w == func_returned(s.retry, value)
         IN [s EXCEPT !.invocations = @ + 1, !.retry = w, !.status = "returned", !.result = w.result]

\* an invocation of func raises e
smart_func_raised(s, e) ==
    IF s.status = "first"
    THEN LET strategy == select_strategy(e)
         IN IF strategy = ""
            THEN [s EXCEPT !.invocations = @ + 1, !.first_exception = e, !.status = "raised", !.raised = e]
            ELSE [s EXCEPT !.invocations = @ + 1, !.first_exception = e, !.strategy = strategy,
                           !.retry = retry_func(strategy), !.status = "retrying"]
    ELSE LET w == func_raised(s.retry, e)
         IN [s EXCEPT !.invocations = @ + 1, !.retry = w,
                      !.status = IF w.status = "raised" THEN "raised" ELSE "retrying",
                      !.raised = w.raised]

(***************************************************************************)
(* comprehensive_fixtures: the statements the import of the module runs,   *)
(* and the two decorated steps of the scraper.                             *)
(***************************************************************************)
\* the names "from error_handler import (...)" binds
ErrorHandlerNames ==
    {"retry_with_backoff", "smart_retry", "SoccerDataLogger", "NetworkError", "DataParsingError",
     "ScrapingError", "recovery_manager", "create_error_context", "classify_error"}

\* the module object of an import that did not happen
NotImported == [imported |-> FALSE, exc |-> "", names |-> {}, ERROR_HANDLING_AVAILABLE |-> FALSE]

\* import comprehensive_fixtures, where importable are the modules of scripts/ that
\* can be imported and logs_dir tells whether data/logs exists: the two guarded
\* imports, the logger (logging.FileHandler opens the log file at once), and the
\* def statements with their decorator
import_comprehensive_fixtures(importable, logs_dir) ==
    LET validator == {"DataValidator", "ValidationError"}
        available == "error_handler" \in importable
        imports == validator \cup (IF available THEN ErrorHandlerNames ELSE {})
                   \cup {"ERROR_HANDLING_AVAILABLE", "EUROPEAN_LEAGUES", "SEASON", "OUTPUT_DIR"}
        Failed(exc, names) ==
            [imported |-> FALSE, exc |-> exc, names |-> names, ERROR_HANDLING_AVAILABLE |-> available]
    IN IF available /\ ~logs_dir THEN Failed("FileNotFoundError", imports)
       ELSE IF "smart_retry" \notin imports THEN Failed("NameError", imports \cup {"logger"})
       ELSE [imported |-> TRUE, exc |-> "",
             names |-> imports \cup {"logger", "robust_create_scraper", "robust_read_schedule"},
             ERROR_HANDLING_AVAILABLE |-> available]

\* the functions smart_retry decorates: the two steps of the scraper, and a function
\* that sends a request and raises what comes of it
DecoratedFunctions == {"robust_create_scraper", "robust_read_schedule", "fetch"}

\* what the body of a decorated function meets
Failures(func) ==
    IF func = "fetch" THEN RequestExceptions \cup {"NetworkError", "RateLimitError", "ValueError"}
    ELSE {"ConnectionError", "TimeoutError", "requests.ConnectionError", "requests.Timeout", "ValueError"}

\* the exception the except clause of the function's body raises for it (with
\* ERROR_HANDLING_AVAILABLE; isinstance tests the builtin ConnectionError and
\* TimeoutError)
raises(func, type) ==
    IF func = "fetch" THEN type
    ELSE IF type \in {"ConnectionError", "TimeoutError"} THEN "NetworkError"
    ELSE IF func = "robust_read_schedule" /\ type \in {"KeyError", "ValueError", "AttributeError"}
    THEN "DataParsingError"
    ELSE "ScrapingError"

(***************************************************************************)
(* The datasets the validator is run on: up to MaxRows clean fixtures (the *)
(* rows of the "perfect test data"), in which the caller overwrites up to  *)
(* MaxDefects cells, drops or adds a column, or repeats a row.             *)
(***************************************************************************)
CleanRow(k) ==
    LET j == ((k - 1) % 4) + 1 IN
    [c \in Range(SchemaColumns) \cup {"notes"} |->
        CASE c = "league" -> StrV(IF j % 2 = 1 THEN "ENG-Premier League" ELSE "ESP-La Liga")
        [] c = "season" -> StrV("2526")
        [] c = "date" -> StrV(IF j \in {1, 4} THEN "2025-08-15" ELSE "2025-08-16")
        [] c = "home_team" -> StrV(<<"Liverpool", "Barcelona", "Arsenal", "Real Madrid">>[j])
        [] c = "away_team" -> StrV(<<"Arsenal", "Real Madrid", "Liverpool", "Barcelona">>[j])
        [] c = "match_report" -> StrV(IF j % 2 = 1 THEN "/en/matches/12345678/test-match-1"
                                                   ELSE "/en/matches/87654321/test-match-2")
        [] c = "home_score" -> FloatV(<<2, 1, 0, 3>>[j])
        [] c = "away_score" -> FloatV(<<1, 3, 0, 2>>[j])
        [] c = "day_of_week" -> StrV(IF j \in {1, 4} THEN "Thursday" ELSE "Friday")
        [] c = "notes" -> StrV("note")]

\* the values a cell of a column is overwritten with
Alternatives(c) ==
    CASE c = "league" -> {StrV("Invalid-League"), NaN}
    [] c = "season" -> {NaN}
    [] c = "date" -> {StrV("invalid-date"), StrV("2025-02-30"), StrV("2099-01-01"), NaN, DateObj(20250815)}
    [] c \in {"home_team", "away_team"} -> {StrV(""), StrV(" "), NaN, IntV(7), StrV("Arsenal")}
    [] c = "match_report" -> {StrV("invalid-url"), NaN, StrV("/en/matches/87654321/test-match-2")}
    [] c \in {"home_score", "away_score"} -> {FloatV(-1), FloatV(25), NaN, StrV("note")}
    [] c = "day_of_week" -> {NaN}
    [] c = "notes" -> {NaN}

Restrict(row, cols) == [c \in Range(cols) |-> row[c]]

VARIABLES
    df,                  \* the caller's DataFrame
    config,              \* self.config
    validation_results,  \* self.validation_results
    outcomes,            \* what the calls of validate_dataframe handed the caller, oldest first
    defects,             \* how many changes the caller made to the clean rows
    scorer,              \* the arguments and the result of a direct call of the scorer
    csv_file,            \* what validate_csv_file found at file_path
    config_file,         \* what is at config_path, and whether self.config was loaded from it
    disk,                \* the directories and the files of the file system
    report_calls,        \* the calls of generate_report, oldest first
    circuit,             \* a CircuitBreaker
    clock,               \* time.time()
    circuit_calls,       \* the calls of CircuitBreaker.call, oldest first
    wrapper,             \* a call of a function decorated with retry_with_backoff
    checking,            \* a run of the rule checkers over df in an order of its own
    modules,             \* the modules that can be imported, and the import of comprehensive_fixtures
    smart                \* a call of a function decorated with smart_retry

fileVars == <<csv_file, config_file, disk, report_calls>>
handlerVars == <<circuit, clock, circuit_calls, wrapper>>
stepVars == <<checking, modules, smart>>
vars == <<df, config, validation_results, outcomes, defects, scorer, fileVars, handlerVars, stepVars>>

\* the scorer has not been called on its own
NoScorerCall == [errors |-> <<>>, warnings |-> <<>>, score |-> ScoreStart]

\* validate_csv_file has not been called
NoCsvFile == CsvFile("", FALSE, FALSE)

\* nothing is at config_path
NoConfigFile == ConfigFile(FALSE, FALSE, EmptyDict)

\* a disk with the root, the current directory and /tmp
InitialDisk ==
    [dirs |-> {<<"/">>, <<".">>, <<"/", "tmp">>}, files |-> EmptyDict, writable |-> TRUE]

\* no file is looked at and no report is written
FilesInit ==
    /\ csv_file = NoCsvFile
    /\ config_file = [file |-> NoConfigFile, loaded |-> FALSE]
    /\ disk = InitialDisk
    /\ report_calls = <<>>

\* a CircuitBreaker() and a wrapper retry_with_backoff()(func), neither called
HandlersInit ==
    /\ circuit = CircuitBreaker(5, 60)
    /\ clock = 0
    /\ circuit_calls = <<>>
    /\ wrapper = retry_with_backoff(3, 2, 1, ExceptionTypes, "")

\* no run of the checkers in another order
NoChecking == [pending |-> {}, errors |-> <<>>, warnings |-> <<>>, exc |-> "", started |-> FALSE]

\* error_handler.py and data_validator.py are in scripts/, data/logs exists, nothing
\* is imported and nothing is called
NoModules ==
    [importable |-> {"data_validator", "error_handler"}, logs_dir |-> TRUE, fixtures |-> NotImported]

\* no checker is run on its own and nothing of the scraper is used
StepsInit ==
    /\ checking = NoChecking
    /\ modules = NoModules
    /\ smart = NoSmartCall

\* DataValidator.__init__, and an empty DataFrame with the schema's columns
Init ==
    /\ df = [cols |-> SchemaColumns, rows |-> <<>>]
    /\ config \in {load_config(f) : f \in ConfigFiles}
    /\ validation_results = <<>>
    /\ outcomes = <<>>
    /\ defects = 0
    /\ scorer = NoScorerCall
    /\ StepsInit
    /\ FilesInit
    /\ HandlersInit

\* the caller adds the next clean fixture
AppendRow ==
    /\ outcomes = <<>>
    /\ len(df) < MaxRows
    /\ df' = [df EXCEPT !.rows = Append(@, Restrict(CleanRow(len(df) + 1), df.cols))]
    /\ UNCHANGED <<config, validation_results, outcomes, defects, scorer, fileVars, handlerVars, stepVars>>

\* the caller adds a row without values
AppendBlankRow ==
    /\ outcomes = <<>>
    /\ len(df) < MaxRows
    /\ defects < MaxDefects
    /\ df' = [df EXCEPT !.rows = Append(@, [c \in Range(df.cols) |-> NaN])]
    /\ defects' = defects + 1
    /\ UNCHANGED <<config, validation_results, outcomes, scorer, fileVars, handlerVars, stepVars>>

\* a fixture that is not played yet: a date to come, no match report, no scores
FutureFixture(k) ==
    [CleanRow(k) EXCEPT !["date"] = StrV("2099-01-01"), !["match_report"] = NaN,
                        !["home_score"] = NaN, !["away_score"] = NaN]

\* the caller adds a fixture that is not played yet
AppendFixture ==
    /\ outcomes = <<>>
    /\ len(df) < MaxRows
    /\ defects < MaxDefects
    /\ df' = [df EXCEPT !.rows = Append(@, Restrict(FutureFixture(len(df) + 1), df.cols))]
    /\ defects' = defects + 1
    /\ UNCHANGED <<config, validation_results, outcomes, scorer, fileVars, handlerVars, stepVars>>

\* another well-formed match report than the given one
OtherReport(v) ==
    IF v = StrV("/en/matches/87654321/test-match-2")
    THEN StrV("/en/matches/12345678/test-match-1")
    ELSE StrV("/en/matches/87654321/test-match-2")

\* the caller records a match a second time, with the same or another match report
RepeatRow ==
    /\ outcomes = <<>>
    /\ len(df) < MaxRows
    /\ defects < MaxDefects
    /\ \E i \in 1..len(df) : \E same \in BOOLEAN :
          LET row == IF same \/ ~HasColumn(df, "match_report") THEN df.rows[i]
                     ELSE [df.rows[i] EXCEPT !["match_report"] = OtherReport(@)]
          IN df' = [df EXCEPT !.rows = Append(@, row)]
    /\ defects' = defects + 1
    /\ UNCHANGED <<config, validation_results, outcomes, scorer, fileVars, handlerVars, stepVars>>

\* the caller overwrites one cell
SetCell ==
    /\ outcomes = <<>>
    /\ defects < MaxDefects
    /\ \E i \in 1..len(df) : \E c \in Range(df.cols) : \E v \in Alternatives(c) :
          /\ df.rows[i][c] # v
          /\ df' = [df EXCEPT !.rows[i][c] = v]
    /\ defects' = defects + 1
    /\ UNCHANGED <<config, validation_results, outcomes, scorer, fileVars, handlerVars, stepVars>>

\* the caller's data lacks a column of the schema
DropColumn ==
    /\ outcomes = <<>>
    /\ defects < MaxDefects
    /\ \E c \in Range(df.cols) :
          LET cols == SelectSeq(df.cols, LAMBDA x : x # c)
          IN df' = [cols |-> cols, rows |-> [i \in 1..len(df) |-> Restrict(df.rows[i], cols)]]
    /\ defects' = defects + 1
    /\ UNCHANGED <<config, validation_results, outcomes, scorer, fileVars, handlerVars, stepVars>>

\* the caller's data has a column the schema does not know
AddColumn ==
    /\ outcomes = <<>>
    /\ defects < MaxDefects
    /\ ~HasColumn(df, "notes")
    /\ df' = [cols |-> Append(df.cols, "notes"),
              rows |-> [i \in 1..len(df) |->
                          [c \in Range(df.cols) \cup {"notes"} |->
                              IF c = "notes" THEN StrV("note") ELSE df.rows[i][c]]]]
    /\ defects' = defects + 1
    /\ UNCHANGED <<config, validation_results, outcomes, scorer, fileVars, handlerVars, stepVars>>

\* a validation that first drops the repeated rows from the caller's DataFrame
ValidateDataframe_DropsDuplicatesInPlace ==
    /\ Len(outcomes) < MaxRuns
    /\ LET keep == SelectSeq([i \in 1..len(df) |-> i],
                             LAMBDA i : ~ \E j \in 1..(i - 1) :
                                          \A c \in Range(df.cols) : SameKey(df.rows[j][c], df.rows[i][c]))
       IN /\ outcomes' = Append(outcomes, validate_dataframe(df, config, "DataFrame"))
          /\ df' = [df EXCEPT !.rows = [i \in 1..Len(keep) |-> df.rows[keep[i]]]]
    /\ UNCHANGED <<config, validation_results, defects, scorer, fileVars, handlerVars, stepVars>>

\* a call validator.validate_dataframe(df)
ValidateDataframe ==
    /\ Len(outcomes) < MaxRuns
    /\ outcomes' = Append(outcomes, validate_dataframe(df, config, "DataFrame"))
    /\ UNCHANGED <<df, config, validation_results, defects, scorer, fileVars, handlerVars, stepVars>>

Next ==
    \/ AppendRow
    \/ AppendBlankRow
    \/ AppendFixture
    \/ RepeatRow
    \/ SetCell
    \/ DropColumn
    \/ AddColumn
    \/ ValidateDataframe

Spec == Init /\ [][Next]_vars

(***************************************************************************)
(* The scorer on its own: _calculate_quality_score called on a dataset of  *)
(* clean rows with lists of findings that grow one finding at a time.      *)
(***************************************************************************)
ErrorSeverities == {"critical", "high", "medium", "low", "warning"}
WarningSeverities == {"medium", "low", "warning"}

\* a finding of which the scorer reads the severity alone
AnyFinding(severity) == Finding("finding", severity, "", <<>>, <<>>, -1)

ScoreInit ==
    /\ \E n \in 0..1 : df = [cols |-> SchemaColumns,
                             rows |-> [i \in 1..n |-> Restrict(CleanRow(i), SchemaColumns)]]
    /\ config = default_config
    /\ validation_results = <<>>
    /\ outcomes = <<>>
    /\ defects = 0
    /\ scorer = [errors |-> <<>>, warnings |-> <<>>, score |-> calculate_quality_score(df, <<>>, <<>>)]
    /\ StepsInit
    /\ FilesInit
    /\ HandlersInit

\* the scorer is called with one more error
ScoreWithError ==
    /\ Len(scorer.errors) + Len(scorer.warnings) < MaxFindings
    /\ \E severity \in ErrorSeverities :
          LET errors == Append(scorer.errors, AnyFinding(severity))
          IN scorer' = [errors |-> errors, warnings |-> scorer.warnings,
                        score |-> calculate_quality_score(df, errors, scorer.warnings)]
    /\ UNCHANGED <<df, config, validation_results, outcomes, defects, fileVars, handlerVars, stepVars>>

\* the scorer is called with one more warning
ScoreWithWarning ==
    /\ Len(scorer.errors) + Len(scorer.warnings) < MaxFindings
    /\ \E severity \in WarningSeverities :
          LET warnings == Append(scorer.warnings, AnyFinding(severity))
          IN scorer' = [errors |-> scorer.errors, warnings |-> warnings,
                        score |-> calculate_quality_score(df, scorer.errors, warnings)]
    /\ UNCHANGED <<df, config, validation_results, outcomes, defects, fileVars, handlerVars, stepVars>>

ScoreNext ==
    \/ ScoreWithError
    \/ ScoreWithWarning

ScoreSpec == ScoreInit /\ [][ScoreNext]_vars

(***************************************************************************)
(* Validation of a CSV file: validate_file(file_path), on a file with the  *)
(* rows df.                                                                *)
(***************************************************************************)
\* DataValidator(None), and an empty file with the schema's header
CsvInit ==
    /\ df = [cols |-> SchemaColumns, rows |-> <<>>]
    /\ config = load_config(NoConfigFile)
    /\ validation_results = <<>>
    /\ outcomes = <<>>
    /\ defects = 0
    /\ scorer = NoScorerCall
    /\ StepsInit
    /\ FilesInit
    /\ HandlersInit

\* a call validator.validate_csv_file(file_path)
ValidateCsvFile ==
    /\ outcomes = <<>>
    /\ \E exists, parses \in BOOLEAN :
          /\ parses => (exists /\ CsvContent(df))
          /\ csv_file' = CsvFile("fixtures.csv", exists, parses)
          /\ outcomes' = Append(outcomes, validate_csv_file(csv_file', df, config))
    /\ UNCHANGED <<df, config, validation_results, defects, scorer,
                   config_file, disk, report_calls, handlerVars, stepVars>>

CsvNext ==
    \/ AppendRow
    \/ AppendBlankRow
    \/ AppendFixture
    \/ RepeatRow
    \/ SetCell
    \/ DropColumn
    \/ AddColumn
    \/ ValidateCsvFile

CsvSpec == CsvInit /\ [][CsvNext]_vars

(***************************************************************************)
(* Construction of a validator from a configuration file that was written  *)
(* member by member.                                                       *)
(***************************************************************************)
MaxMembers == 2

\* the keys written to the file: the five options and one the validator does not know
FileKeys == (DOMAIN default_config) \cup {"report_title"}

\* the value the file gives a key
FileValue(key) ==
    CASE key = "min_quality_score" -> 100
    [] key = "max_missing_percentage" -> 50
    [] key = "report_title" -> 1
    [] OTHER -> FALSE

\* DataValidator(config_path) with nothing at config_path
ConfigInit ==
    /\ df = [cols |-> SchemaColumns, rows |-> <<>>]
    /\ config = load_config(NoConfigFile)
    /\ config_file = [file |-> NoConfigFile, loaded |-> TRUE]
    /\ validation_results = <<>>
    /\ outcomes = <<>>
    /\ defects = 0
    /\ scorer = NoScorerCall
    /\ StepsInit
    /\ csv_file = NoCsvFile
    /\ disk = InitialDisk
    /\ report_calls = <<>>
    /\ HandlersInit

\* a member is written to the configuration file
WriteConfigMember ==
    /\ Cardinality(DOMAIN config_file.file.json) < MaxMembers
    /\ \E key \in FileKeys \ DOMAIN config_file.file.json :
          config_file' =
              [file |-> [config_file.file EXCEPT
                            !.exists = TRUE,
                            !.parses = IF config_file.file.exists THEN @ ELSE TRUE,
                            !.json = DictUpdate(@, [k \in {key} |-> FileValue(key)])],
               loaded |-> FALSE]
    /\ UNCHANGED <<df, config, validation_results, outcomes, defects, scorer,
                   csv_file, disk, report_calls, handlerVars, stepVars>>

\* the file is cut short or made unreadable: open or json.load raises on it
DamageConfigFile ==
    /\ config_file.file.exists
    /\ config_file.file.parses
    /\ config_file' = [file |-> [config_file.file EXCEPT !.parses = FALSE], loaded |-> FALSE]
    /\ UNCHANGED <<df, config, validation_results, outcomes, defects, scorer,
                   csv_file, disk, report_calls, handlerVars, stepVars>>

\* the members are written as an array of pairs that ends with a stray element
WriteConfigArray ==
    /\ config_file.file.exists
    /\ config_file.file.object
    /\ config_file' = [file |-> [config_file.file EXCEPT !.object = FALSE], loaded |-> FALSE]
    /\ UNCHANGED <<df, config, validation_results, outcomes, defects, scorer,
                   csv_file, disk, report_calls, handlerVars, stepVars>>

\* DataValidator(config_path)
Construct ==
    /\ ~config_file.loaded
    /\ config' = load_config(config_file.file)
    /\ config_file' = [config_file EXCEPT !.loaded = TRUE]
    /\ UNCHANGED <<df, validation_results, outcomes, defects, scorer,
                   csv_file, disk, report_calls, handlerVars, stepVars>>

ConfigNext ==
    \/ WriteConfigMember
    \/ DamageConfigFile
    \/ WriteConfigArray
    \/ Construct

ConfigSpec == ConfigInit /\ [][ConfigNext]_vars

(***************************************************************************)
(* Reports: a dataset is validated and generate_report writes the result   *)
(* to a destination the caller names.                                      *)
(***************************************************************************)
MaxReports == 1

\* the destinations: a bare file name, a relative path below a directory that is not
\* there yet, a path below the current directory, an absolute path below
\* directories that are not there yet
ReportPaths ==
    {<<"report.json">>,
     <<"reports", "report.json">>,
     <<".", "report.json">>,
     <<"/", "tmp", "reports", "daily", "report.json">>}

ReportFormats == {"json", "html", "JSON", "xml"}

\* nothing is stored at a path
NoContent == [format |-> ""]

\* a validator, and a dataset of clean fixtures
ReportInit ==
    /\ \E n \in 0..1 : df = [cols |-> SchemaColumns,
                             rows |-> [i \in 1..n |-> Restrict(CleanRow(i), SchemaColumns)]]
    /\ config \in {load_config(f) : f \in ConfigFiles}
    /\ validation_results = <<>>
    /\ outcomes = <<>>
    /\ defects = 0
    /\ scorer = NoScorerCall
    /\ StepsInit
    /\ FilesInit
    /\ HandlersInit

\* a call validator.generate_report(result, output_path, format_type) with the
\* result of an earlier validation
GenerateReport ==
    /\ Len(report_calls) < MaxReports
    /\ \E k \in 1..Len(outcomes) : \E output_path \in ReportPaths : \E format_type \in ReportFormats :
          /\ outcomes[k].exc = ""
          /\ LET done == generate_report(disk, outcomes[k], output_path, format_type, config)
             IN /\ disk' = done.disk
                /\ report_calls' =
                      Append(report_calls,
                             [k |-> k,
                              result |-> outcomes[k],
                              output_path |-> output_path,
                              format_type |-> format_type,
                              writable |-> disk.writable,
                              exc |-> done.exc,
                              dirs |-> done.disk.dirs,
                              stored |-> IF output_path \in DOMAIN done.disk.files
                                         THEN done.disk.files[output_path]
                                         ELSE NoContent])
    /\ UNCHANGED <<df, config, validation_results, outcomes, defects, scorer,
                   csv_file, config_file, handlerVars, stepVars>>

\* the disk stops taking writes (it is full, or mounted read-only)
RevokeWriteAccess ==
    /\ disk.writable
    /\ disk' = [disk EXCEPT !.writable = FALSE]
    /\ UNCHANGED <<df, config, validation_results, outcomes, defects, scorer,
                   csv_file, config_file, report_calls, handlerVars, stepVars>>

ReportNext ==
    \/ ValidateDataframe
    \/ GenerateReport
    \/ RevokeWriteAccess

ReportSpec == ReportInit /\ [][ReportNext]_vars

(***************************************************************************)
(* A circuit breaker that is called as time goes by, with functions that   *)
(* return and functions that raise.                                        *)
(***************************************************************************)
MaxThreshold == 2
MaxTimeout == 2
MaxClock == 4
MaxCalls == 4

\* CircuitBreaker(failure_threshold, recovery_timeout)
CircuitInit ==
    /\ df = [cols |-> SchemaColumns, rows |-> <<>>]
    /\ config = load_config(NoConfigFile)
    /\ validation_results = <<>>
    /\ outcomes = <<>>
    /\ defects = 0
    /\ scorer = NoScorerCall
    /\ StepsInit
    /\ FilesInit
    /\ \E failure_threshold \in 1..MaxThreshold : \E recovery_timeout \in 1..MaxTimeout :
          circuit = CircuitBreaker(failure_threshold, recovery_timeout)
    /\ clock = 0
    /\ circuit_calls = <<>>
    /\ wrapper = retry_with_backoff(3, 2, 1, ExceptionTypes, "")

\* a second passes
Tick ==
    /\ clock < MaxClock
    /\ clock' = clock + 1
    /\ UNCHANGED <<df, config, validation_results, outcomes, defects, scorer, fileVars,
                   circuit, circuit_calls, wrapper, stepVars>>

\* a call circuit.call(func)
CircuitCall ==
    /\ Len(circuit_calls) < MaxCalls
    /\ \E func_raises \in BOOLEAN :
          LET done == call(circuit, clock, func_raises)
          IN /\ circuit' = done.circuit
             /\ circuit_calls' =
                   Append(circuit_calls,
                          [before |-> circuit,
                           time |-> clock,
                           invoked |-> done.invoked,
                           entered |-> done.entered,
                           exc |-> done.exc,
                           message |-> done.message,
                           after |-> done.circuit])
    /\ UNCHANGED <<df, config, validation_results, outcomes, defects, scorer, fileVars,
                   clock, wrapper, stepVars>>

CircuitNext ==
    \/ Tick
    \/ CircuitCall

CircuitSpec == CircuitInit /\ [][CircuitNext]_vars

(***************************************************************************)
(* One call of a function decorated with retry_with_backoff: each          *)
(* invocation of the function returns or raises.                           *)
(***************************************************************************)
MaxAttempts == 3

\* the decorated function is called
RetryInit ==
    /\ df = [cols |-> SchemaColumns, rows |-> <<>>]
    /\ config = load_config(NoConfigFile)
    /\ validation_results = <<>>
    /\ outcomes = <<>>
    /\ defects = 0
    /\ scorer = NoScorerCall
    /\ StepsInit
    /\ FilesInit
    /\ circuit = CircuitBreaker(5, 60)
    /\ clock = 0
    /\ circuit_calls = <<>>
    /\ \E max_attempts \in 0..MaxAttempts : \E exceptions \in ExceptionTuples :
          \E retry_on_name \in RetryOnArguments :
             wrapper = retry_with_backoff(max_attempts, 2, 1, exceptions, retry_on_name)

\* the invocation of func returns; the value tells which invocation it was
FuncReturns ==
    /\ wrapper.status = "running"
    /\ wrapper' = func_returned(wrapper, Len(wrapper.invocations) + 1)
    /\ UNCHANGED <<df, config, validation_results, outcomes, defects, scorer, fileVars,
                   circuit, clock, circuit_calls, stepVars>>

\* the invocation of func raises; the exception tells which invocation it was
FuncRaises ==
    /\ wrapper.status = "running"
    /\ \E type \in ExceptionTypes :
          wrapper' = func_raised(wrapper, Exc(type, Len(wrapper.invocations) + 1))
    /\ UNCHANGED <<df, config, validation_results, outcomes, defects, scorer, fileVars,
                   circuit, clock, circuit_calls, stepVars>>

RetryNext ==
    \/ FuncReturns
    \/ FuncRaises

RetrySpec == RetryInit /\ [][RetryNext]_vars

(***************************************************************************)
(* The scraper: comprehensive_fixtures is imported with or without the     *)
(* modules it looks for, and functions decorated with smart_retry are      *)
(* called; each invocation of the function returns or raises.              *)
(***************************************************************************)
\* scripts/ with or without data_validator.py and error_handler.py, data/ with or
\* without logs
ScraperInit ==
    /\ df = [cols |-> SchemaColumns, rows |-> <<>>]
    /\ config = load_config(NoConfigFile)
    /\ validation_results = <<>>
    /\ outcomes = <<>>
    /\ defects = 0
    /\ scorer = NoScorerCall
    /\ FilesInit
    /\ HandlersInit
    /\ checking = NoChecking
    /\ \E importable \in SUBSET {"data_validator", "error_handler"} : \E logs_dir \in BOOLEAN :
          modules = [importable |-> importable, logs_dir |-> logs_dir, fixtures |-> NotImported]
    /\ smart = NoSmartCall

\* import comprehensive_fixtures
ImportFixtures ==
    /\ ~modules.fixtures.imported
    /\ modules' = [modules EXCEPT !.fixtures = import_comprehensive_fixtures(modules.importable, modules.logs_dir)]
    /\ UNCHANGED <<df, config, validation_results, outcomes, defects, scorer, fileVars,
                   handlerVars, checking, smart>>

\* a call of a decorated function: of a step of the scraper once the module is
\* imported, of any other function once error_handler is
CallDecorated ==
    /\ smart.status \in {"none", "returned", "raised"}
    /\ "error_handler" \in modules.importable
    /\ \E func \in DecoratedFunctions :
          /\ func # "fetch" => modules.fixtures.imported
          /\ smart' = smart_retry(func)
    /\ UNCHANGED <<df, config, validation_results, outcomes, defects, scorer, fileVars,
                   handlerVars, checking, modules>>

\* the invocation of the decorated function returns
SmartFuncReturns ==
    /\ smart.status \in {"first", "retrying"}
    /\ smart' = smart_func_returned(smart, smart.invocations + 1)
    /\ UNCHANGED <<df, config, validation_results, outcomes, defects, scorer, fileVars,
                   handlerVars, checking, modules>>

\* the invocation of the decorated function raises
SmartFuncRaises ==
    /\ smart.status \in {"first", "retrying"}
    /\ \E type \in Failures(smart.func) :
          smart' = smart_func_raised(smart, Exc(raises(smart.func, type), smart.invocations + 1))
    /\ UNCHANGED <<df, config, validation_results, outcomes, defects, scorer, fileVars,
                   handlerVars, checking, modules>>

ScraperNext ==
    \/ ImportFixtures
    \/ CallDecorated
    \/ SmartFuncReturns
    \/ SmartFuncRaises

ScraperSpec == ScraperInit /\ [][ScraperNext]_vars

(***************************************************************************)
(* The rule checkers run over one dataset in an order of their own: each   *)
(* is handed the DataFrame and the configuration, and what it returns is   *)
(* added to the errors and the warnings; then the result is put together.  *)
(***************************************************************************)
\* what the last row of a dataset is replaced with
DamagedRows(n) ==
    {[c \in Range(SchemaColumns) |-> NaN],
     Restrict(FutureFixture(n), SchemaColumns),
     [Restrict(CleanRow(n), SchemaColumns) EXCEPT
         !["league"] = StrV("Invalid-League"), !["date"] = StrV("invalid-date"),
         !["home_team"] = StrV(""), !["home_score"] = FloatV(-1), !["away_score"] = FloatV(25),
         !["match_report"] = StrV("invalid-url")],
     [Restrict(CleanRow(n), SchemaColumns) EXCEPT !["home_score"] = StrV("note")],
     [Restrict(CleanRow(n), SchemaColumns) EXCEPT !["away_team"] = IntV(7)]}

\* up to MaxRows clean fixtures, the last of them as it is or damaged
OrderDatasets ==
    {[cols |-> SchemaColumns, rows |-> [i \in 1..n |-> Restrict(CleanRow(i), SchemaColumns)]] :
        n \in 0..MaxRows}
    \cup {[cols |-> SchemaColumns,
           rows |-> [i \in 1..n |-> IF i = n THEN row ELSE Restrict(CleanRow(i), SchemaColumns)]] :
            n \in 1..MaxRows, row \in UNION {DamagedRows(k) : k \in 1..MaxRows}}

\* a dataset, a configuration, and no checker run yet
OrderInit ==
    /\ df \in OrderDatasets
    /\ config \in {load_config(NoConfigFile), load_config(ConfigFile(TRUE, TRUE, [allow_future_matches |-> FALSE]))}
    /\ validation_results = <<>>
    /\ outcomes = <<>>
    /\ defects = 0
    /\ scorer = NoScorerCall
    /\ FilesInit
    /\ HandlersInit
    /\ checking = [NoChecking EXCEPT !.pending = Range(Checkers), !.started = TRUE]
    /\ modules = NoModules
    /\ smart = NoSmartCall

\* one of the checkers that did not run yet runs; if it raises, the run is over
RunChecker ==
    /\ checking.exc = ""
    /\ \E name \in checking.pending :
          LET found == run_checker(name, df, config)
          IN checking' = IF found.exc # ""
                         THEN [checking EXCEPT !.pending = {}, !.exc = found.exc]
                         ELSE [checking EXCEPT !.pending = @ \ {name},
                                               !.errors = @ \o found.errors,
                                               !.warnings = @ \o found.warnings]
    /\ UNCHANGED <<df, config, validation_results, outcomes, defects, scorer, fileVars,
                   handlerVars, modules, smart>>

\* every checker has run: the score, the verdict and the summary are made of what
\* they found
FinishChecking ==
    /\ checking.started /\ checking.pending = {} /\ checking.exc = ""
    /\ outcomes = <<>>
    /\ LET quality_score == calculate_quality_score(df, checking.errors, checking.warnings)
       IN outcomes' = <<[exc |-> "",
                         is_valid |-> IsValid(checking.errors, quality_score, config),
                         total_records |-> len(df),
                         errors |-> checking.errors,
                         warnings |-> checking.warnings,
                         quality_score |-> quality_score,
                         summary |-> create_summary(len(df), checking.errors, checking.warnings,
                                                    quality_score, "DataFrame")]>>
    /\ UNCHANGED <<df, config, validation_results, defects, scorer, fileVars, handlerVars, stepVars>>

OrderNext ==
    \/ RunChecker
    \/ FinishChecking

OrderSpec == OrderInit /\ [][OrderNext]_vars

(***************************************************************************)
(* Datasets long enough for the row lists of the findings to be cut: up to *)
(* MaxCapRows rows, each a clean fixture or a damaged one.                 *)
(***************************************************************************)
MaxCapRows == 11

\* row k of a long dataset: the clean fixture (kind 0), a record with a defect in
\* every checked column (kind 1), or a match to come with half a score (kind 2)
CapRow(kind, k) ==
    CASE kind = 0 -> Restrict(CleanRow(k), SchemaColumns)
    [] kind = 1 ->
          [Restrict(CleanRow(k), SchemaColumns) EXCEPT
              !["league"] = StrV("Invalid-League"), !["season"] = NaN,
              !["date"] = StrV("invalid-date"), !["home_team"] = StrV(""), !["away_team"] = StrV(""),
              !["home_score"] = FloatV(-1), !["away_score"] = FloatV(25),
              !["match_report"] = StrV("invalid-url")]
    [] kind = 2 ->
          [Restrict(CleanRow(k), SchemaColumns) EXCEPT
              !["date"] = StrV("2099-01-01"), !["match_report"] = NaN,
              !["home_score"] = FloatV(25), !["away_score"] = NaN]

\* a validator that allows matches to come or not, and an empty dataset
CapInit ==
    /\ df = [cols |-> SchemaColumns, rows |-> <<>>]
    /\ config \in {load_config(NoConfigFile), load_config(ConfigFile(TRUE, TRUE, [allow_future_matches |-> FALSE]))}
    /\ validation_results = <<>>
    /\ outcomes = <<>>
    /\ defects = 0
    /\ scorer = NoScorerCall
    /\ StepsInit
    /\ FilesInit
    /\ HandlersInit

\* the caller adds a row: a clean one, or a damaged one of the kind the dataset has
AppendCapRow ==
    /\ outcomes = <<>>
    /\ len(df) < MaxCapRows
    /\ \E damaged \in 1..2 : \E kind \in {0, damaged} :
          /\ \A i \in 1..len(df) : df.rows[i] \in {CapRow(0, i), CapRow(damaged, i)}
          /\ df' = [df EXCEPT !.rows = Append(@, CapRow(kind, len(df) + 1))]
    /\ UNCHANGED <<config, validation_results, outcomes, defects, scorer, fileVars, handlerVars, stepVars>>

\* a call validator.validate_dataframe(df) of the long dataset
ValidateLongDataframe ==
    /\ outcomes = <<>>
    /\ outcomes' = <<validate_dataframe(df, config, "DataFrame")>>
    /\ UNCHANGED <<df, config, validation_results, defects, scorer, fileVars, handlerVars, stepVars>>

CapNext ==
    \/ AppendCapRow
    \/ ValidateLongDataframe

CapSpec == CapInit /\ [][CapNext]_vars

(***************************************************************************)
(* Properties.                                                             *)
(***************************************************************************)
\* the calls made so far, and those that returned a ValidationResult
Calls == 1..Len(outcomes)
Returned(k) == outcomes[k].exc = ""

\* the dataset of the first n clean fixtures with exactly the schema's columns
CleanDf(n) == [cols |-> SchemaColumns, rows |-> [i \in 1..n |-> Restrict(CleanRow(i), SchemaColumns)]]

\* every row of df is the clean fixture of its position, on the columns df has
OtherwiseClean == df.rows = [i \in 1..len(df) |-> Restrict(CleanRow(i), df.cols)]

\* the number of findings of a list that satisfy P
CountOf(findings, P(_)) == Cardinality({i \in 1..Len(findings) : P(findings[i])})

\* the sum of W(severity) over a list of findings
SumOver(findings, W(_)) ==
    LET sum[i \in 0..Len(findings)] == IF i = 0 THEN 0 ELSE sum[i - 1] + W(findings[i].severity)
    IN sum[Len(findings)]

\* C1: every ValidationResult has is_valid = (errors is empty and quality_score >=
\* config.min_quality_score); the warnings count only through the score.
C1_IsValidIffNoErrorsAndScore ==
    \A k \in Calls : Returned(k) =>
        (outcomes[k].is_valid <=>
            (Len(outcomes[k].errors) = 0 /\ outcomes[k].quality_score >= config.min_quality_score))

\* a result without errors that fails on the score its warnings left
C1_Witness ==
    \E k \in Calls :
        /\ Returned(k)
        /\ outcomes[k].errors = <<>>
        /\ outcomes[k].warnings # <<>>
        /\ len(df) > 0
        /\ outcomes[k].quality_score < config.min_quality_score
        /\ ~outcomes[k].is_valid

\* C2: validate_dataframe returns a ValidationResult for every dataset; no exception
\* reaches the caller for a problem of the data.
C2_NeverRaises == \A k \in Calls : Returned(k)

\* the deductions as the claim C3 lists them
ClaimedErrorWeight(severity) ==
    CASE severity = "critical" -> 20
    [] severity = "high" -> 10
    [] severity = "medium" -> 5
    [] severity = "low" -> 2
    [] OTHER -> 0
ClaimedWarningWeight(severity) == IF severity = "medium" THEN 2 ELSE 1
ClaimedDeductions(o) == SumOver(o.errors, ClaimedErrorWeight) + SumOver(o.warnings, ClaimedWarningWeight)

\* C3 as stated: whatever the row count, quality_score = max(0, 100 - D), D the sum of
\* 20/10/5/2 over the critical/high/medium/low errors plus 2 per medium warning and 1
\* per other warning.
C3_ScoreFromFindingsOnly ==
    \A k \in Calls : Returned(k) =>
        outcomes[k].quality_score = Max(0, 100 - ClaimedDeductions(outcomes[k]))

\* the deductions with every error that is not critical, high or medium counted 2
AmendedErrorWeight(severity) ==
    CASE severity = "critical" -> 20
    [] severity = "high" -> 10
    [] severity = "medium" -> 5
    [] OTHER -> 2
AmendedDeductions(o) == SumOver(o.errors, AmendedErrorWeight) + SumOver(o.warnings, ClaimedWarningWeight)

\* C3 amended: for a dataset with at least one row quality_score = max(0, 100 - D), D
\* the sum over the errors of 20 for critical, 10 for high, 5 for medium and 2 for any
\* other severity plus 2 per medium warning and 1 per other warning; for a dataset
\* without rows quality_score = 0 whatever the findings.
C3_ScoreFromFindingsUnlessEmpty ==
    \A k \in Calls : Returned(k) =>
        outcomes[k].quality_score =
            IF outcomes[k].total_records = 0 THEN 0
            ELSE Max(0, 100 - AmendedDeductions(outcomes[k]))

\* a run on a dataset with rows whose deductions exceed 100
C3_Witness ==
    \E k \in Calls :
        /\ Returned(k)
        /\ outcomes[k].total_records > 0
        /\ AmendedDeductions(outcomes[k]) > 100
        /\ outcomes[k].quality_score = 0

\* C4: the score lies in 0..100 and one more finding never raises it.
C4_ScoreBoundedAndMonotone ==
    /\ scorer.score \in 0..100
    /\ [][scorer'.score \in 0..100 /\ scorer'.score <= scorer.score]_vars

\* the scorer called on a dataset with rows and findings worth more than 100
C4_Witness ==
    /\ len(df) > 0
    /\ scorer.score = 0
    /\ SumOver(scorer.errors, AmendedErrorWeight) + SumOver(scorer.warnings, ClaimedWarningWeight) > 100

IsCompletenessFinding(f) == f.type \in {"completeness_error", "completeness_warning"}

\* C5: validating a dataset without rows raises no division error, gives
\* total_records = 0 and no completeness finding.
C5_EmptyDatasetNoDivisionError ==
    \A k \in Calls : len(df) = 0 =>
        /\ outcomes[k].exc # "ZeroDivisionError"
        /\ Returned(k)
        /\ outcomes[k].total_records = 0
        /\ CountOf(outcomes[k].errors, IsCompletenessFinding) = 0
        /\ CountOf(outcomes[k].warnings, IsCompletenessFinding) = 0

\* a dataset without rows (with or without all the schema's columns) has been validated
C5_Witness == len(df) = 0 /\ Len(df.cols) > 0 /\ Len(outcomes) >= 1 /\ Returned(1)

LacksOnlyHomeTeam == df.cols = SelectSeq(SchemaColumns, LAMBDA c : c # "home_team")

IsCritical(f) == f.severity = "critical"
IsMissingHomeTeam(f) == f.type = "schema_error" /\ f.severity = "critical" /\ f.columns = {"home_team"}

\* C7: a dataset that lacks the home_team column and is otherwise clean gets exactly
\* one critical error, the schema error listing home_team, a score <= 80 and
\* is_valid = false.
C7_MissingHomeTeam ==
    \A k \in Calls : (LacksOnlyHomeTeam /\ OtherwiseClean) =>
        /\ Returned(k)
        /\ CountOf(outcomes[k].errors, IsCritical) = 1
        /\ CountOf(outcomes[k].errors, IsMissingHomeTeam) = 1
        /\ outcomes[k].quality_score <= 80
        /\ ~outcomes[k].is_valid

\* clean fixtures without the home_team column have been validated
C7_Witness ==
    /\ LacksOnlyHomeTeam
    /\ OtherwiseClean
    /\ len(df) > 0
    /\ \E k \in Calls : Returned(k) /\ outcomes[k].quality_score = 80

IsSchemaWarning(f) == f.type = "schema_warning"

\* C8: columns the schema does not know give one informational finding that is put in
\* warnings and not in errors, so a dataset whose only deviation is an extra column
\* has no errors.
C8_ExtraColumnIsWarning ==
    \A k \in Calls : (Returned(k) /\ Range(df.cols) \ Range(SchemaColumns) # {}) =>
        /\ CountOf(outcomes[k].errors, IsSchemaWarning) = 0
        /\ CountOf(outcomes[k].warnings, IsSchemaWarning) = 1
        /\ (Range(SchemaColumns) \subseteq Range(df.cols) /\ OtherwiseClean => outcomes[k].errors = <<>>)

IsSameTeamFinding(f) == f.type = "same_team_error"

\* the index labels of the rows whose home team equals their away team
SameTeamRows ==
    IF HasColumn(df, "home_team") /\ HasColumn(df, "away_team")
    THEN RowsWhere(df, LAMBDA r : CellEq(r["home_team"], r["away_team"]))
    ELSE <<>>

\* C9: with a row whose home_team equals its away_team a run emits exactly one high
\* same-team finding, listing those rows (the first 10) with their exact count; with
\* no such row it emits none.
C9_OneSameTeamFinding ==
    \A k \in Calls : Returned(k) =>
        IF SameTeamRows # <<>>
        THEN /\ CountOf(outcomes[k].errors, IsSameTeamFinding) = 1
             /\ \A i \in 1..Len(outcomes[k].errors) : IsSameTeamFinding(outcomes[k].errors[i]) =>
                   /\ outcomes[k].errors[i].severity = "high"
                   /\ outcomes[k].errors[i].rows = First10(SameTeamRows)
                   /\ outcomes[k].errors[i].total = Len(SameTeamRows)
        ELSE CountOf(outcomes[k].errors, IsSameTeamFinding) = 0

\* df is a dataset of clean fixtures with one high-severity defect of the kinds of C10
OneHighDefect ==
    LET n == len(df)
        clean == CleanDf(n)
    IN \/ \E i \in 1..n : \E c \in {"home_score", "away_score"} :
             df = [clean EXCEPT !.rows[i][c] = FloatV(-1)]
       \/ \E i \in 1..n : \E c \in {"home_team", "away_team"} :
             df = [clean EXCEPT !.rows[i][c] = StrV("")]
       \/ \E i \in 1..n :
             \/ df = [clean EXCEPT !.rows[i]["home_team"] = clean.rows[i]["away_team"]]
             \/ df = [clean EXCEPT !.rows[i]["away_team"] = clean.rows[i]["home_team"]]
       \/ \E i \in 1..n : df = [clean EXCEPT !.rows[i]["date"] = StrV("invalid-date")]
       \/ /\ n >= 2
          /\ \E i \in 1..(n - 1) :
                df = [clean EXCEPT !.rows[n] = [clean.rows[i] EXCEPT !["match_report"] = OtherReport(@)]]

\* C10: under the default configuration a clean dataset scores 100 and one
\* high-severity defect of any kind (a negative score, an empty team name, a row with
\* equal teams, an unparsable date, a second record of a match) makes it 90.
C10_OneHighDefectCostsTen ==
    \A k \in Calls : config = default_config =>
        /\ (len(df) > 0 /\ df = CleanDf(len(df)) => Returned(k) /\ outcomes[k].quality_score = 100)
        /\ (OneHighDefect => Returned(k) /\ outcomes[k].quality_score = 90)

\* rows i < j of df record one match (same date, home_team and away_team) with two
\* different match reports
MatchKey == {"date", "home_team", "away_team"}
SameMatchOtherReport(i, j) ==
    /\ i < j
    /\ (MatchKey \cup {"match_report"}) \subseteq Range(df.cols)
    /\ \A c \in MatchKey : SameKey(df.rows[i][c], df.rows[j][c])
    /\ ~SameKey(df.rows[i]["match_report"], df.rows[j]["match_report"])

\* no two rows of df agree on every column
NoRepeatedRow ==
    \A i, j \in 1..len(df) : i < j => \E c \in Range(df.cols) : ~SameKey(df.rows[i][c], df.rows[j][c])

IsDuplicateMatchFinding(f) == f.type = "duplicate_match_error"
IsDuplicateRecordFinding(f) == f.type = "duplicate_record_error"

\* C11 as stated: with enable_duplicate_check, two rows that share (date, home_team,
\* away_team) but differ in match_report give exactly one high duplicate-match
\* finding that lists the indices of both rows, and (no row being repeated whole) no
\* exact-duplicate finding.
C11_DuplicateMatchListsBothRows ==
    \A k \in Calls : \A i, j \in 1..len(df) :
        (Returned(k) /\ config.enable_duplicate_check /\ SameMatchOtherReport(i, j)) =>
            /\ CountOf(outcomes[k].errors, IsDuplicateMatchFinding) = 1
            /\ \A n \in 1..Len(outcomes[k].errors) :
                   IsDuplicateMatchFinding(outcomes[k].errors[n]) =>
                       /\ outcomes[k].errors[n].severity = "high"
                       /\ {i - 1, j - 1} \subseteq Range(outcomes[k].errors[n].rows)
            /\ NoRepeatedRow => CountOf(outcomes[k].errors, IsDuplicateRecordFinding) = 0

\* C11 amended: the one high duplicate-match finding lists the later row of the
\* pair; the first occurrence of a match is not listed (a row is listed exactly when
\* an earlier row records the same match), and the total is the number of rows
\* listed.
C11_DuplicateMatchListsLaterRow ==
    \A k \in Calls : \A i, j \in 1..len(df) :
        (Returned(k) /\ config.enable_duplicate_check /\ SameMatchOtherReport(i, j)) =>
            /\ CountOf(outcomes[k].errors, IsDuplicateMatchFinding) = 1
            /\ \A n \in 1..Len(outcomes[k].errors) :
                   IsDuplicateMatchFinding(outcomes[k].errors[n]) =>
                       /\ outcomes[k].errors[n].severity = "high"
                       /\ (j - 1) \in Range(outcomes[k].errors[n].rows)
                       /\ (i - 1) \in Range(outcomes[k].errors[n].rows) <=>
                              \E h \in 1..(i - 1) :
                                  \A c \in MatchKey : SameKey(df.rows[h][c], df.rows[i][c])
                       /\ outcomes[k].errors[n].total = Len(outcomes[k].errors[n].rows)
            /\ NoRepeatedRow => CountOf(outcomes[k].errors, IsDuplicateRecordFinding) = 0

C11_Witness ==
    /\ Len(outcomes) >= 1 /\ Returned(1)
    /\ config.enable_duplicate_check
    /\ len(df) = 2 /\ SameMatchOtherReport(1, 2)
    /\ CountOf(outcomes[1].errors, IsDuplicateMatchFinding) = 1

IsMatchReportFinding(f) == f.type = "match_report_error"

\* the rows of df whose match_report is null or is not of the shape
\* /en/matches/<8 hex chars>/<slug>
NonConformingReports ==
    IF ~HasColumn(df, "match_report") THEN {}
    ELSE {i \in 1..len(df) : \/ isna(df.rows[i]["match_report"])
                             \/ ~MATCH_REPORT_PATTERN(StrOf(df.rows[i]["match_report"]))}

NotYetPlayed ==
    /\ len(df) > 0
    /\ df.cols = SchemaColumns
    /\ \A i \in 1..len(df) : df.rows[i] = Restrict(FutureFixture(i), SchemaColumns)

\* C13: a dataset of valid fixtures that are not played yet (match_report, home_score
\* and away_score all null) validates without errors.
C13_FutureFixturesNoErrors ==
    \A k \in Calls : NotYetPlayed => (Returned(k) /\ outcomes[k].errors = <<>>)

\* a non-empty dataset with exactly the schema's columns in which every cell is
\* present and sound: a league of the registry, a well-formed date, two distinct
\* non-empty team names, a conforming match report, two scores in range, season and
\* day_of_week strings, and no match recorded twice
PerfectData ==
    /\ len(df) > 0
    /\ df.cols = SchemaColumns
    /\ \A i \in 1..len(df) :
          LET r == df.rows[i] IN
          /\ r["league"].t = "str" /\ r["league"].s \in VALID_LEAGUES
          /\ r["season"].t = "str" /\ r["day_of_week"].t = "str"
          /\ \/ r["date"].t = "date"
             \/ r["date"].t = "str" /\ DATE_PATTERN(Chars(r["date"].s)) /\ strptime(Chars(r["date"].s)).ok
          /\ \A c \in {"home_team", "away_team"} : r[c].t = "str" /\ Strip(Chars(r[c].s)) # <<>>
          /\ r["home_team"] # r["away_team"]
          /\ r["match_report"].t = "str" /\ MATCH_REPORT_PATTERN(Chars(r["match_report"].s))
          /\ \A c \in {"home_score", "away_score"} : IsNumber(r[c]) /\ r[c].n >= 0 /\ r[c].n <= 20
    /\ \A i, j \in 1..len(df) :
          i < j => \E c \in MatchKey : ~SameKey(df.rows[i][c], df.rows[j][c])

\* C14: under the default configuration a perfect dataset validates with zero
\* errors, quality_score 100.0 and is_valid true.
C14_PerfectDataIsValid ==
    \A k \in Calls :
        (PerfectData /\ config = default_config) =>
            /\ Returned(k)
            /\ outcomes[k].errors = <<>>
            /\ outcomes[k].quality_score = 100
            /\ outcomes[k].is_valid

\* a run on two perfect rows of two leagues
C14_Witness ==
    /\ Len(outcomes) >= 1 /\ Returned(1)
    /\ PerfectData /\ config = default_config
    /\ len(df) = 2 /\ df.rows[1]["league"] # df.rows[2]["league"]

IsLeagueFinding(f) == f.type = "league_validation_error"

\* df has a league value that the registry does not hold
LeagueOutsideRegistry ==
    /\ HasColumn(df, "league")
    /\ \E i \in 1..len(df) :
          ~isna(df.rows[i]["league"]) /\ df.rows[i]["league"] \notin {StrV(l) : l \in VALID_LEAGUES}

\* C15: with strict_league_validation false no league finding is emitted whatever the
\* league values; with it true a dataset with a league value outside the registry
\* yields one medium league finding.
C15_StrictLeagueValidation ==
    \A k \in Calls :
        Returned(k) =>
            /\ ~config.strict_league_validation => CountOf(outcomes[k].errors, IsLeagueFinding) = 0
            /\ (config.strict_league_validation /\ LeagueOutsideRegistry) =>
                   /\ CountOf(outcomes[k].errors, IsLeagueFinding) = 1
                   /\ \A n \in 1..Len(outcomes[k].errors) :
                          IsLeagueFinding(outcomes[k].errors[n]) => outcomes[k].errors[n].severity = "medium"

\* a run without strict league validation on a dataset with an unknown league
C15_Witness ==
    /\ Len(outcomes) >= 1 /\ Returned(1)
    /\ ~config.strict_league_validation
    /\ LeagueOutsideRegistry

\* C16: validate_csv_file raises ValidationError, and gives no ValidationResult, on
\* a path that does not exist and on a file that cannot be parsed; in every other
\* case it returns the result of validating the parsed rows.
C16_CsvFileRaisesOrReturns ==
    \A k \in Calls :
        csv_file.path # "" =>
            IF ~csv_file.exists \/ ~csv_file.parses
            THEN outcomes[k].exc = "ValidationError"
            ELSE /\ Returned(k)
                 /\ outcomes[k] = validate_dataframe(read_csv(df), config, csv_file.path)

\* the five recognized options
RecognizedKeys == {"min_quality_score", "max_missing_percentage", "allow_future_matches",
                   "strict_league_validation", "enable_duplicate_check"}

\* the file at config_path can be read and holds a JSON object
WellFormedConfigFile ==
    config_file.file.exists /\ config_file.file.parses /\ config_file.file.object

\* C17: the effective configuration is the five defaults overridden key by key by
\* the file: a recognized key of the file takes the file's value, a recognized key
\* the file lacks keeps its default, unknown keys are ignored (the configuration
\* holds the five recognized options only), and a missing, unreadable or malformed
\* file leaves the five defaults in force.
C17_EffectiveConfiguration ==
    config_file.loaded =>
        /\ DOMAIN config = RecognizedKeys
        /\ \A key \in RecognizedKeys :
               config[key] = IF WellFormedConfigFile /\ key \in DOMAIN config_file.file.json
                             THEN config_file.file.json[key]
                             ELSE default_config[key]

\* C18: generate_report with format 'json' or 'html' stores the report at the
\* destination the caller names, whatever the path (absolute or relative, with or
\* without a directory component), after creating the directories that are missing
\* on the way (the disk taking writes); and it leaves the ValidationResult as it
\* was, whether or not the write succeeds.
C18_ReportPersisted ==
    \A c \in 1..Len(report_calls) :
        LET e == report_calls[c] IN
        e.format_type \in {"json", "html"} =>
            /\ e.result = outcomes[e.k]
            /\ e.writable =>
                  /\ e.exc = ""
                  /\ Prefixes(dirname(e.output_path)) \subseteq e.dirs
                  /\ e.stored = IF e.format_type = "json"
                                THEN json_report(e.result, config)
                                ELSE html_report(e.result)

\* the call invoked func, and func raised
FuncRaised(e) == e.invoked /\ e.exc # ""

\* the call found the breaker OPEN, invoked func, and func returned
Recovered(e) == e.before.state = "OPEN" /\ e.invoked /\ e.exc = ""

\* the number of calls in which func raised since the breaker last recovered
RaisedSinceRecovery ==
    Cardinality({c \in 1..Len(circuit_calls) :
                    /\ FuncRaised(circuit_calls[c])
                    /\ \A l \in (c + 1)..Len(circuit_calls) : ~Recovered(circuit_calls[l])})

\* the call was made while the breaker was OPEN and before recovery_timeout had
\* elapsed since the last failure
WhileOpen(e) ==
    /\ e.before.state = "OPEN"
    /\ e.time - e.before.last_failure_time < e.before.recovery_timeout

\* C19: once failure_threshold calls of the wrapped function have raised the state
\* is OPEN; and a call made while OPEN, before recovery_timeout has elapsed since
\* the last failure, raises the 'Circuit breaker is OPEN' error without invoking
\* the function and without changing failure_count or state.
C19_OpensAndRefuses ==
    /\ RaisedSinceRecovery >= circuit.failure_threshold => circuit.state = "OPEN"
    /\ \A c \in 1..Len(circuit_calls) :
          LET e == circuit_calls[c] IN
          WhileOpen(e) =>
              /\ ~e.invoked
              /\ e.exc = "SoccerDataError"
              /\ e.message = "Circuit breaker is OPEN - too many failures"
              /\ e.after.failure_count = e.before.failure_count
              /\ e.after.state = e.before.state

\* two calls raised, which opened a breaker of threshold 2, and the next call was refused
C19_Witness ==
    /\ circuit.failure_threshold = 2
    /\ Len(circuit_calls) >= 3
    /\ FuncRaised(circuit_calls[1]) /\ FuncRaised(circuit_calls[2])
    /\ WhileOpen(circuit_calls[3]) /\ ~circuit_calls[3].invoked
    /\ circuit.state = "OPEN"

\* the wrapper retries after the exception: the except clause catches it and
\* retry_on, if given, holds of it
Retryable(e) ==
    /\ e.type \in wrapper.exceptions
    /\ wrapper.retry_on = "" \/ retry_on(wrapper.retry_on, e)

\* C20: a function wrapped by retry_with_backoff(max_attempts = n), n >= 1, is
\* invoked at most n times per call of the wrapper; if its k-th invocation is the
\* first to succeed the wrapper returns that invocation's result after exactly k
\* invocations; if all n invocations raise a retryable exception the wrapper raises
\* the last exception after exactly n invocations.
C20_AtMostNInvocations ==
    wrapper.max_attempts >= 1 =>
        LET invocations == wrapper.invocations
            n == wrapper.max_attempts
        IN /\ Len(invocations) <= n
           /\ \A k \in 1..Len(invocations) :
                  invocations[k].ok =>
                      /\ k = Len(invocations)
                      /\ wrapper.status = "returned"
                      /\ wrapper.result = invocations[k].value
           /\ (Len(invocations) = n /\ \A k \in 1..n : ~invocations[k].ok /\ Retryable(invocations[k].exc)) =>
                  /\ wrapper.status = "raised"
                  /\ wrapper.raised = invocations[n].exc

\* three attempts: two connection errors, then the third invocation returns
C20_Witness ==
    /\ wrapper.max_attempts = 3
    /\ Len(wrapper.invocations) = 3
    /\ ~wrapper.invocations[1].ok /\ ~wrapper.invocations[2].ok /\ wrapper.invocations[3].ok
    /\ wrapper.status = "returned" /\ wrapper.result = 3

\* the number of rows of df without a value in column c
Missing(c) == Cardinality({i \in 1..len(df) : isna(df.rows[i][c])})

\* the findings of a list that are completeness findings of the given type on column c
CompletenessFindings(findings, type, c) ==
    {n \in 1..Len(findings) : findings[n].type = type /\ findings[n].column = c}

HtmlPages ==
    {report_calls[c].stored : c \in {x \in 1..Len(report_calls) : report_calls[x].stored.format = "html"}}

\* C28: for every ValidationResult the status line of result.summary reads PASSED
\* exactly when is_valid is true and FAILED exactly when it is false, so that the
\* banner of a stored HTML report and the summary the page embeds never disagree.
C28_SummaryAgreesWithVerdict ==
    /\ \A k \in Calls :
          Returned(k) => (outcomes[k].summary.status = "PASSED" <=> outcomes[k].is_valid)
                         /\ (outcomes[k].summary.status = "FAILED" <=> ~outcomes[k].is_valid)
    /\ \A page \in HtmlPages : page.status = page.summary.status

\* the call found the breaker OPEN after more than recovery_timeout had elapsed
\* since the last failure
AfterTimeout(e) ==
    /\ e.before.state = "OPEN"
    /\ e.time - e.before.last_failure_time > e.before.recovery_timeout

\* C29: once more than recovery_timeout has elapsed since the last failure, the next
\* call on an OPEN breaker moves to HALF_OPEN and invokes the wrapped function; if
\* the function returns the breaker becomes CLOSED with failure_count 0, and if it
\* raises the breaker is OPEN again and the function's exception reaches the caller.
\* In every reachable state an OPEN breaker has failure_count >= failure_threshold
\* and a last_failure_time.
C29_Recovery ==
    /\ \A c \in 1..Len(circuit_calls) :
          LET e == circuit_calls[c] IN
          AfterTimeout(e) =>
              /\ e.invoked
              /\ e.entered = "HALF_OPEN"
              /\ e.exc = "" => (e.after.state = "CLOSED" /\ e.after.failure_count = 0)
              /\ e.exc # "" => (e.after.state = "OPEN" /\ e.exc = "ConnectionError"
                                /\ e.message = "Test failure")
    /\ circuit.state = "OPEN" =>
          (circuit.failure_count >= circuit.failure_threshold /\ circuit.last_failure_time # NoTime)

\* a breaker of threshold 2 opened, was tried after the timeout and opened again,
\* was tried once more and closed
C29_Witness ==
    /\ circuit.failure_threshold = 2
    /\ Len(circuit_calls) = 4
    /\ AfterTimeout(circuit_calls[3]) /\ circuit_calls[3].exc = "ConnectionError"
    /\ AfterTimeout(circuit_calls[4]) /\ circuit_calls[4].exc = ""
    /\ circuit.state = "CLOSED" /\ circuit.failure_count = 0

\* the number of calls up to call c in which func raised since the breaker last recovered
RaisedUpTo(c) ==
    Cardinality({b \in 1..c :
                    /\ FuncRaised(circuit_calls[b])
                    /\ \A l \in (b + 1)..c : ~Recovered(circuit_calls[l])})

\* C30: a call that succeeds in the CLOSED state leaves failure_count unchanged, and
\* only a successful HALF_OPEN call resets it to 0; so a breaker of threshold N
\* opens on the N-th failed call since the last reset, however many successful
\* calls come between the failures.
C30_SuccessKeepsCount ==
    \A c \in 1..Len(circuit_calls) :
        LET e == circuit_calls[c] IN
        /\ (e.before.state = "CLOSED" /\ e.exc = "") =>
              (e.invoked /\ e.after.failure_count = e.before.failure_count /\ e.after.state = "CLOSED")
        /\ (e.after.failure_count < e.before.failure_count) =>
              (e.entered = "HALF_OPEN" /\ e.exc = "" /\ e.after.failure_count = 0)
        /\ (FuncRaised(e) /\ e.before.state = "CLOSED") =>
              /\ e.after.failure_count = RaisedUpTo(c)
              /\ e.after.state = IF RaisedUpTo(c) >= e.before.failure_threshold THEN "OPEN" ELSE "CLOSED"

\* a breaker of threshold 2 opened on the second failure, two calls that succeeded
\* having come between the first failure and the second
C30_Witness ==
    /\ circuit.failure_threshold = 2
    /\ Len(circuit_calls) = 4
    /\ FuncRaised(circuit_calls[1])
    /\ circuit_calls[2].invoked /\ circuit_calls[2].exc = ""
    /\ circuit_calls[3].invoked /\ circuit_calls[3].exc = ""
    /\ FuncRaised(circuit_calls[4])
    /\ circuit_calls[4].before.state = "CLOSED"
    /\ circuit.state = "OPEN"

\* C21: importing comprehensive_fixtures while error_handler cannot be imported
\* completes without raising and leaves ERROR_HANDLING_AVAILABLE == False.
C21_ImportWithoutErrorHandler ==
    ("error_handler" \notin modules.importable /\ modules.fixtures # NotImported) =>
        /\ modules.fixtures.imported
        /\ modules.fixtures.exc = ""
        /\ ~modules.fixtures.ERROR_HANDLING_AVAILABLE

\* the call of the decorated function is over: it returned or it raised
CallOver == smart.status \in {"returned", "raised"}

\* C22: when a function decorated with smart_retry raises NetworkError (as
\* robust_create_scraper and robust_read_schedule do for connection and timeout
\* failures), the function is invoked again before the error reaches the caller.
C22_NetworkErrorRetried ==
    (smart.status = "raised" /\ smart.first_exception.type = "NetworkError") => smart.invocations >= 2

\* every invocation of the call raised requests' ConnectionError or Timeout
KeepsFailing ==
    /\ smart.first_exception.type \in {"requests.ConnectionError", "requests.Timeout"}
    /\ \A i \in 1..Len(smart.retry.invocations) :
          smart.retry.invocations[i].exc.type \in {"requests.ConnectionError", "requests.Timeout"}

\* C26: a decorated function that keeps failing with a requests network error
\* (ConnectionError or Timeout) is retried exactly 3 times after the initial failure,
\* with waits of 1s, 2s and 4s before the first, second and third retry, and then
\* the last exception is raised to the caller.
C26_NetworkBackoff ==
    (smart.status = "raised" /\ KeepsFailing) =>
        /\ smart.invocations = 1 + 3
        /\ smart.retry.slept = <<1, 2, 4>>
        /\ smart.raised = Exc(smart.raised.type, smart.invocations)

\* the strategy the claim names for a first failure
ClaimedStrategy(e) ==
    IF e.type = "requests.HTTPError 429" THEN "rate_limit"
    ELSE IF e.type = "requests.HTTPError 503" THEN "server_error"
    ELSE IF e.type \in RequestExceptions THEN "network"
    ELSE ""

\* C27: smart_retry selects its strategy by error type: an HTTP 429 error is retried
\* under the rate-limit strategy (up to 3 retries, waits of 30s, 60s, 120s), an HTTP
\* 5xx error under the server-error strategy, and only other request failures under
\* the network strategy (base delay 1s).
C27_StrategyByErrorType ==
    (smart.status \in {"retrying", "returned", "raised"} /\ smart.first_exception \in
        {Exc(type, 1) : type \in RequestExceptions}) =>
        /\ smart.strategy = ClaimedStrategy(smart.first_exception)
        /\ smart.strategy = "rate_limit" =>
              /\ smart.retry.base_delay = 30
              /\ \A i \in 1..Len(smart.retry.slept) : smart.retry.slept[i] = <<30, 60, 120>>[i]
        /\ smart.strategy = "network" => smart.retry.base_delay = 1

\* the two lists hold the same findings, each as many times in the one as in the other
SameMultiset(a, b) ==
    \A f \in Range(a) \cup Range(b) :
        Cardinality({i \in 1..Len(a) : a[i] = f}) = Cardinality({i \in 1..Len(b) : b[i] = f})

\* C25: the rule checkers share no state and do not read each other's output: run in
\* any order over the same dataset they yield the same multiset of errors, the same
\* multiset of warnings, the same quality_score and the same is_valid as in the
\* order of validate_dataframe (and if that order raises, so does every other).
C25_OrderOfCheckersIrrelevant ==
    LET sequential == validate_dataframe(df, config, "DataFrame") IN
    /\ (checking.started /\ checking.exc # "") => sequential.exc # ""
    /\ (checking.started /\ checking.pending = {} /\ checking.exc = "") => sequential.exc = ""
    /\ \A k \in Calls :
          /\ SameMultiset(outcomes[k].errors, sequential.errors)
          /\ SameMultiset(outcomes[k].warnings, sequential.warnings)
          /\ outcomes[k].quality_score = sequential.quality_score
          /\ outcomes[k].is_valid = sequential.is_valid

\* a run that ended with the findings of validate_dataframe in another order
C25_Witness ==
    /\ Len(outcomes) = 1
    /\ Len(outcomes[1].errors) >= 3
    /\ outcomes[1].warnings # <<>>
    /\ outcomes[1].errors # validate_dataframe(df, config, "DataFrame").errors

\* the findings whose row list is cut for display
CappedTypes ==
    {"data_type_error", "date_format_error", "future_date_warning", "league_validation_error",
     "empty_team_error", "same_team_error", "negative_score_error", "high_score_warning",
     "incomplete_score_warning", "match_report_error"}

\* the index labels of the rows of df that offend the rule finding f is about
Offending(f) ==
    LET Rows(P(_)) == {i - 1 : i \in {k \in 1..len(df) : P(df.rows[k])}}
        c == f.column
    IN CASE f.type = "data_type_error" -> Rows(LAMBDA r : InvalidType(c, r[c]))
       [] f.type = "date_format_error" -> Rows(LAMBDA r : ~ParseDateCell(r["date"]).ok)
       [] f.type = "future_date_warning" ->
             Rows(LAMBDA r : ParseDateCell(r["date"]).ok /\ DateAfter(ParseDateCell(r["date"]).d, Today))
       [] f.type = "league_validation_error" ->
             Rows(LAMBDA r : ~isna(r["league"]) /\ r["league"] \notin {StrV(l) : l \in VALID_LEAGUES})
       [] f.type = "empty_team_error" -> Rows(LAMBDA r : EmptyTeam(r[c]))
       [] f.type = "same_team_error" -> Rows(LAMBDA r : CellEq(r["home_team"], r["away_team"]))
       [] f.type = "negative_score_error" -> Rows(LAMBDA r : IsNumber(r[c]) /\ r[c].n < 0)
       [] f.type = "high_score_warning" -> Rows(LAMBDA r : IsNumber(r[c]) /\ r[c].n > 20)
       [] f.type = "incomplete_score_warning" ->
             Rows(LAMBDA r : isna(r["home_score"]) # isna(r["away_score"]))
       [] f.type = "match_report_error" ->
             Rows(LAMBDA r : isna(r["match_report"]) \/ ~MATCH_REPORT_PATTERN(StrOf(r["match_report"])))

\* C24: in every finding whose row list is cut for display (data-type, date, league,
\* team, score and match-report findings) the row list holds min(10, total) indices,
\* all of them rows that offend the rule, and the finding's total field equals the
\* number of offending rows before the cut.
C24_RowListCapped ==
    \A k \in Calls : Returned(k) =>
        LET findings == outcomes[k].errors \o outcomes[k].warnings IN
        \A n \in 1..Len(findings) :
            LET f == findings[n] IN
            f.type \in CappedTypes =>
                /\ Len(f.rows) = IF f.total < 10 THEN f.total ELSE 10
                /\ Cardinality(Range(f.rows)) = Len(f.rows)
                /\ Range(f.rows) \subseteq Offending(f)
                /\ f.total = Cardinality(Offending(f))

\* a run over eleven matches to come without a match report: the error and the
\* warning count eleven rows and list ten
C24_Witness ==
    /\ Len(outcomes) = 1 /\ Returned(1)
    /\ \E n \in 1..Len(outcomes[1].errors) :
          outcomes[1].errors[n].type = "match_report_error" /\ outcomes[1].errors[n].total = 11
          /\ Len(outcomes[1].errors[n].rows) = 10
    /\ \E n \in 1..Len(outcomes[1].warnings) :
          outcomes[1].warnings[n].type = "future_date_warning" /\ outcomes[1].warnings[n].total = 11
          /\ Len(outcomes[1].warnings[n].rows) = 10

====
